---- MODULE Spec2Model ----
(***************************************************************************)
(* Claim validation pipeline of med-app-api: the task manager              *)
(* (shared/task_manager.py), the validation endpoint and its tracked       *)
(* background run (validation/router.py), the batch orchestrator           *)
(* (pipeline/tasks.py), the rule evaluator (pipeline/rules.py) and the     *)
(* LLM service (pipeline/llm.py).                                          *)
(*                                                                         *)
(* Strings are sequences of string tokens; a number inside an f-string is  *)
(* rendered by NumStr.  None is the string "None".                         *)
(***************************************************************************)
EXTENDS Integers, Sequences, FiniteSets, TLC

\* ------------------------------------------------------------------ bounds
MaxRequests == 2      \* run_validation calls in SpecSerial and SpecRace
MaxTracked == 1       \* run_validation calls in Spec
MaxUploads == 1       \* claim files uploaded
MaxParses == 1        \* rule documents parsed
MaxApiCalls == 3      \* TaskManager calls in SpecTaskManager
MaxTime == 1          \* clock ticks in SpecTaskManager
MaxErrors == 2        \* errors in a list given to a pure function
MaxParsers == 2       \* parse calls in SpecRuleStore
MaxIds == 4           \* ids in the list passed to process_claim_batch in SpecBatch

\* --------------------------------------------------------------- constants
None == "None"

NoError == "No error"
TechnicalError == "Technical error"
MedicalError == "Medical error"
Both == "both"
NoRulesLoaded == "No rules loaded"

NotValidated == "Not validated"
Validated == "Validated"

Pending == "pending"
Running == "running"
Completed == "completed"
Failed == "failed"

\* the three kinds the combination rule is specified over
InputKinds == {NoError, TechnicalError, MedicalError}

\* keys of error_counts / total_paid_by_error
CounterKeys == {NoError, MedicalError, TechnicalError, Both}

\* --------------------------------------------------------- pure functions

\* a combination that keeps the technical type when both evaluations fail
CombineKeepsTechnical(technical_type, medical_type) ==
    IF technical_type = NoError /\ medical_type = NoError THEN NoError
    ELSE IF technical_type # NoError THEN technical_type
    ELSE medical_type

\* pipeline/tasks.py _combine_error_types
_combine_error_types(technical_type, medical_type) ==
    IF technical_type = NoError /\ medical_type = NoError THEN NoError
    ELSE IF technical_type # NoError /\ medical_type # NoError THEN Both
    ELSE IF technical_type # NoError THEN technical_type
    ELSE medical_type

\* ---------------------------------------------------------------- strings
\* Python's None for a string-valued column or dict entry
NoneStr == <<"<None>">>
\* Python's None for the Float column paid_amount_aed
NoneAmount == -1

NumStr(n) == CASE n = 500 -> "500" [] n = 1500 -> "1500" [] n = 1000 -> "1000"
               [] n = 0 -> "0" [] n = 1 -> "1" [] n = 2 -> "2" [] n = 3 -> "3"
               [] OTHER -> "n"

\* the bullet character U+2022
Bullet == "<bullet>"

\* truthiness of a str-or-None value: None and "" are falsy
Truthy(v) == v # NoneStr /\ v # <<>>

RECURSIVE Concat(_)
Concat(ss) == IF ss = <<>> THEN <<>> ELSE Head(ss) \o Concat(Tail(ss))

\* sep.join(parts)
RECURSIVE Join(_, _)
Join(sep, parts) ==
    IF parts = <<>> THEN <<>>
    ELSE IF Len(parts) = 1 THEN parts[1]
    ELSE parts[1] \o <<sep>> \o Join(sep, Tail(parts))

\* s.split(sep): the parts of s between the sep tokens ("" splits to [""])
RECURSIVE Split(_, _)
Split(s, sep) ==
    IF \A i \in 1..Len(s) : s[i] # sep THEN <<s>>
    ELSE LET k == CHOOSE i \in 1..Len(s) :
                      s[i] = sep /\ \A j \in 1..(i-1) : s[j] # sep
         IN <<SubSeq(s, 1, k-1)>> \o Split(SubSeq(s, k+1, Len(s)), sep)

\* s.strip(): leading and trailing blanks removed
RECURSIVE Strip(_)
Strip(s) ==
    IF s = <<>> THEN s
    ELSE IF Head(s) = " " THEN Strip(Tail(s))
    ELSE IF s[Len(s)] = " " THEN Strip(SubSeq(s, 1, Len(s)-1))
    ELSE s

\* the advice keywords that occur in the lower-cased token
TokenKeywords(tok) ==
    CASE tok = "Required field '" -> {"required"}
      [] tok = " exceeds policy threshold of AED " -> {"threshold"}
      [] tok = " requires prior approval per section 1, but no approval provided." -> {"approval"}
      [] tok = " requires prior approval per section 2, but no approval provided." -> {"approval"}
      [] tok = "Service not medically necessary" -> {"medical"}
      [] tok = "Approval exceeds THRESHOLD for medical service" -> {"approval", "threshold", "medical"}
      [] OTHER -> {}

\* kw in error.lower()
KeywordIn(kw, error) == \E i \in 1..Len(error) : kw \in TokenKeywords(error[i])

\* advice chosen by the last matching keyword instead of the first
AdviceLastKeywordWins(error) ==
    IF KeywordIn("medical", error) THEN "Consult medical guidelines for service necessity"
    ELSE IF KeywordIn("approval", error) THEN "Verify approval number format and validity"
    ELSE IF KeywordIn("required", error) THEN "Complete missing required fields"
    ELSE IF KeywordIn("threshold", error) THEN "Review payment amount against policy limits"
    ELSE "Manual review required"

\* pipeline/tasks.py _generate_recommendations, lines 187-197: the advice of
\* one error (first matching keyword wins)
Advice(error) ==
    IF KeywordIn("threshold", error) THEN "Review payment amount against policy limits"
    ELSE IF KeywordIn("required", error) THEN "Complete missing required fields"
    ELSE IF KeywordIn("approval", error) THEN "Verify approval number format and validity"
    ELSE IF KeywordIn("medical", error) THEN "Consult medical guidelines for service necessity"
    ELSE "Manual review required"

\* all orderings of a finite set, as sequences without repetition
Orderings(S) ==
    {q \in [1..Cardinality(S) -> S] : \A i, j \in 1..Cardinality(S) : q[i] = q[j] => i = j}

\* pipeline/tasks.py _generate_recommendations: "; ".join(list(set(...))).
\* The iteration order of a Python set of strings is not fixed, so the
\* operator yields every string the call can return.
_generate_recommendations(errors) ==
    LET recommendations == {Advice(errors[i]) : i \in 1..Len(errors)}
    IN {Join("; ", [i \in 1..Len(q) |-> <<q[i]>>]) : q \in Orderings(recommendations)}

\* ------------------------------------------------------------ rule evaluator
\* redis GET returned nothing for the key
NoRules == [absent |-> TRUE]
\* a stored value that json.loads cannot decode
MalformedEntry == [malformed |-> TRUE]

\* keys of the claim_data dict built in process_claim_batch
ClaimDataKeys == {"claim_id", "encounter_type", "service_date", "national_id",
                  "member_id", "facility_id", "unique_id", "diagnosis_codes",
                  "service_code", "paid_amount_aed", "approval_number"}

\* not claim_data.get(field)
FieldFalsy(claim_data, field) ==
    IF field = "paid_amount_aed"
    THEN claim_data[field] = NoneAmount \/ claim_data[field] = 0
    ELSE ~Truthy(claim_data[field])

RequiredFieldError(field) ==
    <<Bullet, " ", "Required field '", field,
      "' is missing or empty per Technical Adjudication Guide section 4.">>

ThresholdError(paid_amount, threshold) ==
    <<Bullet, " ", "Paid amount AED ", NumStr(paid_amount),
      " exceeds policy threshold of AED ", NumStr(threshold), " per section 3.">>

ServiceApprovalError(service_code) ==
    <<Bullet, " ", "Service code ">> \o service_code \o
    <<" requires prior approval per section 1, but no approval provided.">>

DiagnosisApprovalError(diag) ==
    <<Bullet, " ", "Diagnosis code ">> \o diag \o
    <<" requires prior approval per section 2, but no approval provided.">>

InSeq(x, s) == \E i \in 1..Len(s) : s[i] = x

\* variant: an absent rule set is read as an empty one, so the default
\* threshold of rules.get("paid_amount_threshold", 1000) still applies
EvaluateDefaultsWithoutRules(technical_rules, claim_data) ==
    LET paid_amount == claim_data.paid_amount_aed
        errors == IF paid_amount # NoneAmount /\ paid_amount # 0 /\ paid_amount > 1000
                  THEN <<ThresholdError(paid_amount, 1000)>> ELSE <<>>
    IN [raised |-> FALSE, valid |-> errors = <<>>, errors |-> errors,
        type |-> IF errors = <<>> THEN NoError ELSE TechnicalError]

\* pipeline/rules.py RuleEvaluator.evaluate_technical_rules.  raised = TRUE
\* is the JSONDecodeError of json.loads at line 145 or the AttributeError of
\* None.split(",") at line 179.
evaluate_technical_rules(technical_rules, claim_data) ==
    IF technical_rules = NoRules
    THEN [raised |-> FALSE, valid |-> TRUE, errors |-> <<>>, type |-> NoRulesLoaded]
    ELSE IF technical_rules = MalformedEntry
    THEN [raised |-> TRUE, valid |-> FALSE, errors |-> <<>>, type |-> "JSONDecodeError"]
    ELSE
    LET rules == technical_rules
        required_fields == rules.required_fields
        missing == SelectSeq(required_fields,
                       LAMBDA field : field \notin ClaimDataKeys
                                         \/ FieldFalsy(claim_data, field))
        required_errors == [i \in 1..Len(missing) |-> RequiredFieldError(missing[i])]
        paid_amount == claim_data.paid_amount_aed
        threshold == rules.paid_amount_threshold
        threshold_errors ==
            IF paid_amount # NoneAmount /\ paid_amount # 0 /\ paid_amount > threshold
            THEN <<ThresholdError(paid_amount, threshold)>> ELSE <<>>
        service_code == claim_data.service_code
        approval_number == claim_data.approval_number
        service_errors ==
            IF InSeq(service_code, rules.approval_required_services)
               /\ ~Truthy(approval_number)
            THEN <<ServiceApprovalError(service_code)>> ELSE <<>>
        raw == claim_data.diagnosis_codes
        parts == Split(raw, ",")
        diagnosis_codes == [i \in 1..Len(parts) |-> Strip(parts[i])]
        hits == SelectSeq(diagnosis_codes,
                    LAMBDA diag : InSeq(diag, rules.approval_required_diagnoses))
        diagnosis_errors ==
            IF hits # <<>> /\ ~Truthy(approval_number)
            THEN <<DiagnosisApprovalError(hits[1])>> ELSE <<>>
        errors == required_errors \o threshold_errors \o service_errors
                      \o diagnosis_errors
    IN IF raw = NoneStr
       THEN [raised |-> TRUE, valid |-> FALSE, errors |-> <<>>, type |-> "AttributeError"]
       ELSE [raised |-> FALSE, valid |-> errors = <<>>, errors |-> errors,
             type |-> IF errors = <<>> THEN NoError ELSE TechnicalError]

\* ---------------------------------------------------------------- LLM service
PendingLLMText == "Medical rules evaluation pending LLM integration"

\* what the Gemini call can do: return a schema-conformant analysis, or raise.
\* cause is what happened (the API answered 429, model_validate_json rejected
\* the response text, the network failed); error_msg is str(error), in tokens.
LLMResponses ==
    { [kind |-> "ok", is_medically_appropriate |-> TRUE,
       medical_necessity_concerns |-> <<>>,
       alignment_with_standards |-> "aligned", confidence_score |-> 9],
      [kind |-> "ok", is_medically_appropriate |-> FALSE,
       medical_necessity_concerns |-> << <<Bullet, " ", "Service not medically necessary">> >>,
       alignment_with_standards |-> "not aligned", confidence_score |-> 8],
      [kind |-> "ok", is_medically_appropriate |-> TRUE,
       medical_necessity_concerns |-> <<>>,
       alignment_with_standards |-> PendingLLMText, confidence_score |-> 5],
      [kind |-> "error", cause |-> "rate limit",
       error_msg |-> <<"429", " ", "RESOURCE_EXHAUSTED", ". Quota exceeded">>],
      [kind |-> "error", cause |-> "network", error_msg |-> <<"Read timed out">>],
      [kind |-> "error", cause |-> "schema",
       error_msg |-> <<"1 validation error for MedicalAnalysisResponse confidence_score Input should be less than or equal to 1 [input_value=", "429", "]">>] }

\* "429" in error_msg or "RESOURCE_EXHAUSTED" in error_msg
IsRateLimit(error_msg) ==
    \E i \in 1..Len(error_msg) : error_msg[i] \in {"429", "RESOURCE_EXHAUSTED"}

\* pipeline/llm.py LLMService._create_rate_limit_result (confidence in tenths)
_create_rate_limit_result ==
    [valid |-> TRUE,
     errors |-> << <<"Rate limit exceeded - using basic analysis">> >>,
     type |-> NoError,
     llm_analysis |-> "Analysis deferred due to API rate limits",
     recommendations |-> <<"Re-run validation after rate limit reset">>,
     confidence |-> 1]

\* pipeline/llm.py LLMService._create_error_result
_create_error_result(error_msg) ==
    [valid |-> TRUE,
     errors |-> << <<"LLM evaluation failed: ">> \o error_msg >>,
     type |-> NoError,
     llm_analysis |-> "Unable to perform LLM analysis",
     recommendations |-> <<"Manual review recommended">>,
     confidence |-> 0]

\* an error handler that reports every failure as a general failure
HandleEveryErrorAsFailure(error_msg) == _create_error_result(error_msg)

\* pipeline/llm.py LLMService._handle_llm_error
_handle_llm_error(error_msg) ==
    IF IsRateLimit(error_msg) THEN _create_rate_limit_result
    ELSE _create_error_result(error_msg)

\* pipeline/llm.py LLMService._format_analysis_result
_format_analysis_result(analysis) ==
    [valid |-> analysis.is_medically_appropriate,
     errors |-> analysis.medical_necessity_concerns,
     type |-> IF ~analysis.is_medically_appropriate THEN MedicalError ELSE NoError,
     llm_analysis |-> analysis.alignment_with_standards,
     recommendations |-> <<"see analysis">>,
     confidence |-> analysis.confidence_score]

\* pipeline/llm.py LLMService.evaluate_medical_claim, given what the call did
evaluate_medical_claim(response) ==
    IF response.kind = "ok" THEN _format_analysis_result(response)
    ELSE _handle_llm_error(response.error_msg)

\* variant: without a cached rule set the LLM is asked with an empty rule list
EvaluateMedicalAsksWithoutRules(medical_rules_data, response) ==
    evaluate_medical_claim(response)

\* pipeline/rules.py RuleEvaluator.evaluate_medical_rules
evaluate_medical_rules(medical_rules_data, response) ==
    IF medical_rules_data = NoRules
    THEN [valid |-> TRUE, errors |-> <<>>, type |-> NoError, llm_analysis |-> ""]
    ELSE IF medical_rules_data = MalformedEntry
    THEN [raised |-> TRUE, valid |-> FALSE, errors |-> <<>>, type |-> "JSONDecodeError",
          llm_analysis |-> ""]
    ELSE evaluate_medical_claim(response)

\* ------------------------------------------------------------ claim read path
\* the newline character
Newline == "<newline>"

\* line.lstrip("\u2022 "): leading bullets and blanks removed
RECURSIVE LStripBullet(_)
LStripBullet(s) ==
    IF s # <<>> /\ Head(s) \in {Bullet, " "} THEN LStripBullet(Tail(s)) ELSE s

\* json.loads(error_text) returns a list: the text is a JSON array of strings
IsJsonList(error_text) ==
    Len(error_text) >= 2 /\ error_text[1] = "[" /\ error_text[Len(error_text)] = "]"

\* the comma between two elements of a JSON array and the quote around a JSON
\* string: lexemes of the JSON text, distinct from a comma or a quote inside
\* a string, which json.dumps escapes
JsonComma == "<json-comma>"
JsonQuote == "<json-quote>"

\* the strings of a JSON array text, quotes removed
JsonListItems(error_text) ==
    IF Len(error_text) = 2 THEN <<>>
    ELSE LET parts == Split(SubSeq(error_text, 2, Len(error_text) - 1), JsonComma)
         IN [i \in 1..Len(parts) |-> SubSeq(parts[i], 2, Len(parts[i]) - 1)]

\* json.loads(error_text) returns something else: a number, true, false, null
IsJsonScalar(error_text) ==
    Len(error_text) = 1 /\ error_text[1] \in {"429", "true", "false", "null"}

\* variant: the elements of a JSON array are returned as stored, bullets kept
ParseJsonKeepsBullets(error_text) ==
    IF error_text = <<>> THEN <<>>
    ELSE IF IsJsonList(error_text) THEN JsonListItems(error_text)
    ELSE IF IsJsonScalar(error_text) THEN <<error_text>>
    ELSE IF InSeq(Newline, error_text)
    THEN LET lines == SelectSeq(Split(error_text, Newline),
                                LAMBDA line : Strip(line) # <<>>)
         IN [i \in 1..Len(lines) |-> LStripBullet(lines[i])]
    ELSE <<LStripBullet(error_text)>>

\* claims/services.py _parse_error_explanation
_parse_error_explanation(error_text) ==
    IF error_text = <<>> THEN <<>>
    ELSE IF IsJsonList(error_text)
    THEN LET parsed == JsonListItems(error_text)
         IN [i \in 1..Len(parsed) |-> LStripBullet(parsed[i])]
    ELSE IF IsJsonScalar(error_text) THEN <<error_text>>
    ELSE IF InSeq(Newline, error_text)
    THEN LET lines == SelectSeq(Split(error_text, Newline),
                                LAMBDA line : Strip(line) # <<>>)
         IN [i \in 1..Len(lines) |-> LStripBullet(lines[i])]
    ELSE <<LStripBullet(error_text)>>

\* validation/router.py get_paginated_validation_results, the nested
\* parse_error_explanation
parse_error_explanation(error_text) ==
    IF error_text = <<>> \/ error_text = NoneStr THEN <<>>
    ELSE IF IsJsonList(error_text)
    THEN LET parsed == JsonListItems(error_text)
         IN [i \in 1..Len(parsed) |-> LStripBullet(parsed[i])]
    ELSE IF IsJsonScalar(error_text) THEN <<error_text>>
    ELSE IF InSeq(Newline, error_text)
    THEN LET lines == SelectSeq(Split(error_text, Newline),
                                LAMBDA line : Strip(line) # <<>>)
         IN [i \in 1..Len(lines) |-> LStripBullet(lines[i])]
    ELSE <<LStripBullet(error_text)>>

\* the legacy encoding of a list of errors: one bulleted line per error,
\* joined by newlines
LegacyEncode(errors) ==
    Join(Newline, [i \in 1..Len(errors) |-> <<Bullet, " ">> \o errors[i]])

\* the JSON-array encoding of a list of errors: json.dumps(errors)
JsonEncode(errors) ==
    <<"[">> \o Join(JsonComma, [i \in 1..Len(errors) |->
                                  <<JsonQuote>> \o errors[i] \o <<JsonQuote>>])
            \o <<"]">>

\* claims/services.py get_claim: the error_explanation of the returned claim
get_claim(db_claim) ==
    _parse_error_explanation(IF db_claim.error_explanation = NoneStr THEN <<>>
                             ELSE db_claim.error_explanation)

\* --------------------------------------------------------------- task manager
\* shared/task_manager.py TaskManager.generate_task_id: a fresh id per request
TaskIdOf(r) == CASE r = 1 -> "validation_0a11" [] r = 2 -> "validation_0b22"
                 [] r = 3 -> "validation_0c33" [] r = 4 -> "validation_0d44"
                 [] OTHER -> "validation_0e55"
TaskIds == {TaskIdOf(r) : r \in 1..(IF MaxRequests > MaxTracked THEN MaxRequests ELSE MaxTracked)}
Users == {"alice", "bob"}
TaskTypes == {"validation", "rules"}
Statuses == {Pending, Running, Completed, Failed}

\* an omitted (None) progress / details argument of update_task_status
NoneInt == -1
NoneDetails == [none |-> TRUE]

\* variant: the patch replaces the details
DictReplace(current, patch) == patch

\* dict.update: keys of patch take the patch's value, the others are kept
DictUpdate(current, patch) ==
    [k \in DOMAIN current \cup DOMAIN patch |->
        IF k \in DOMAIN patch THEN patch[k] ELSE current[k]]

\* shared/task_manager.py TaskManager.create_task: the row it inserts
NewTaskRow(task_type, user_id, message, time) ==
    [task_type |-> task_type, status |-> Pending, progress |-> 0,
     message |-> message, created_at |-> time, updated_at |-> time,
     user_id |-> user_id, details |-> [start_time |-> time]]

\* shared/task_manager.py TaskManager.update_task_status, lines 53-64: the row
\* after the update
UpdatedTaskRow(task, status, progress, message, details, time) ==
    [task EXCEPT
        !.status = status,
        !.updated_at = time,
        !.progress = IF progress # NoneInt THEN progress ELSE @,
        !.message = IF message # NoneStr THEN message ELSE @,
        !.details = IF details # NoneDetails
                    THEN DictUpdate(DictUpdate(@, details), [last_update |-> time])
                    ELSE @]

\* shared/task_manager.py TaskManager.get_active_tasks (task_type given)
get_active_tasks(store, task_type) ==
    {t \in DOMAIN store : store[t].status \in {Pending, Running}
                            /\ store[t].task_type = task_type}

TaskCanBeStarted == [can_start |-> TRUE, reason |-> <<"Task can be started">>]
UserHasActiveTask == [can_start |-> FALSE,
                      reason |-> <<"You already have an active task running">>]
AlreadyActive(task_id, status) ==
    [can_start |-> FALSE,
     reason |-> <<"Task '", task_id, "' is already ", status>>]

\* a can_start_task that refuses only the user who owns the active task
CanStartOwnTasksOnly(store, task_type, user_id) ==
    LET own == {t \in DOMAIN store : /\ store[t].status \in {Pending, Running}
                                     /\ store[t].task_type = task_type
                                     /\ store[t].user_id = user_id}
    IN IF own # {}
       THEN {[can_start |-> FALSE,
              reason |-> <<"Task '", t, "' is already ", store[t].status>>] : t \in own}
       ELSE {[can_start |-> TRUE, reason |-> <<"Task can be started">>]}

\* shared/task_manager.py TaskManager.can_start_task: every (can_start, reason)
\* the call can return on this store.  active_tasks[0] is the first row of a
\* query without ORDER BY, so it is any one of the active tasks of that type.
can_start_task(store, task_type, user_id) ==
    LET active_tasks == get_active_tasks(store, task_type)
    IN IF active_tasks # {}
       THEN {AlreadyActive(t, store[t].status) : t \in active_tasks}
       ELSE LET user_active_tasks == {t \in active_tasks : store[t].user_id = user_id}
            IN IF Cardinality(user_active_tasks) >= 1
               THEN {UserHasActiveTask}
               ELSE {TaskCanBeStarted}

\* ------------------------------------------------------------------- inputs
ClaimIds == {"C1", "C2"}

\* a row as upload_claims_file builds it (upload/router.py lines 76-92)
UploadRow(claim_id, national_id, diagnosis_codes, service_code, paid_amount_aed, approval_number) ==
    [claim_id |-> <<claim_id>>, encounter_type |-> <<"OUTPATIENT">>,
     service_date |-> <<"2024-01-15">>, national_id |-> national_id,
     member_id |-> <<"M1">>, facility_id |-> <<"F1">>, unique_id |-> <<"U1">>,
     diagnosis_codes |-> diagnosis_codes, service_code |-> service_code,
     paid_amount_aed |-> paid_amount_aed, approval_number |-> approval_number,
     status |-> NotValidated, error_type |-> NoError,
     error_explanation |-> <<>>, recommended_action |-> <<>>]

\* the claims in master_table when the service starts: an earlier upload
InitialClaims ==
    [c \in ClaimIds |->
        IF c = "C1"
        THEN UploadRow("C1", <<"N1">>, <<"E11.9", ",", " ", "I10">>, <<"SRV1">>,
                       1500, NoneStr)
        ELSE UploadRow("C2", NoneStr, NoneStr, <<"SRV2">>, NoneAmount, <<"APP1">>)]

\* the claim files a user uploads: claim id -> row
UploadFiles ==
    { [c \in {"C1"} |->
          UploadRow("C1", <<"N1">>, <<"E11.9">>, <<"SRV2">>, 500, <<"APP2">>)] }

\* what parse_technical_rules caches: the LLM extraction or the fallback
ParsedTechnicalRules ==
    { [paid_amount_threshold |-> 1000,
       approval_required_services |-> << <<"SRV1">> >>,
       approval_required_diagnoses |-> << <<"I10">> >>,
       required_fields |-> <<"national_id", "member_id">>,
       unique_id_format |-> "any", case_format |-> "any"] }

\* what parse_medical_rules caches
ParsedMedicalRules ==
    { [inpatient_services |-> << <<"SRV9">> >>, outpatient_services |-> <<>>,
       facility_registry |-> <<>>, diagnosis_service_mappings |-> <<>>,
       mutually_exclusive |-> <<>>] }

\* pipeline/rules.py parse_technical_rules, lines 29-36: the rule set cached when
\* the LLM extraction returned nothing, with a threshold found in the text
TechnicalFallback(threshold) ==
    [paid_amount_threshold |-> threshold, approval_required_services |-> <<>>,
     approval_required_diagnoses |-> <<>>,
     required_fields |-> <<"national_id", "member_id", "facility_id", "unique_id">>]

FallbackTechnicalRules == TechnicalFallback(500)

\* pipeline/llm.py extract_rules_from_pdf: a rule set extracted from a guide
\* that requires the amount and the diagnosis codes of every claim
ExtractedTechnicalRules ==
    [paid_amount_threshold |-> 1000,
     approval_required_services |-> << <<"SRV1">> >>,
     approval_required_diagnoses |-> << <<"I10">>, <<"E11.9">> >>,
     required_fields |-> <<"paid_amount_aed", "diagnosis_codes">>,
     unique_id_format |-> "any", case_format |-> "any"]

\* the rule sets redis can hold under rules:technical
TechnicalRuleSets ==
    ParsedTechnicalRules \cup {FallbackTechnicalRules, ExtractedTechnicalRules}

\* pipeline/rules.py parse_medical_rules, lines 57-65: the medical rule set
\* cached when the LLM extraction returned nothing
FallbackMedicalRules ==
    [inpatient_services |-> <<>>, outpatient_services |-> <<>>,
     facility_registry |-> <<>>, diagnosis_service_mappings |-> <<>>,
     mutually_exclusive |-> <<>>, medical_validation_rules |-> <<>>]

\* -------------------------------------------------------------------- state
VARIABLES
    master,            \* master_table: claim id -> row
    refined,           \* refined_table: claim id -> row (claim_id is unique)
    metrics,           \* metrics_table: rows in insertion order
    tasks,             \* task_status table: task id -> row
    active_tasks,      \* TaskManager._active_tasks
    technical_cache,   \* redis rules:technical:<tenant>
    medical_cache,     \* redis rules:medical:<tenant>
    requests,          \* run_validation calls in flight: r -> record
    runs,              \* process_claim_batch_with_tracking runs: task id -> record
    now,               \* datetime.utcnow()
    uploads,           \* claim files uploaded so far
    parses,            \* rule documents parsed so far
    parsing,           \* parse calls in flight, and what each key was last set to
    api,               \* a function called directly: its arguments and result
    ledger             \* history: sum of the results of the batches that committed

vars == <<master, refined, metrics, tasks, active_tasks, technical_cache,
          medical_cache, requests, runs, now, uploads, parses, parsing, api,
          ledger>>

db_vars == <<master, refined, metrics>>
cache_vars == <<technical_cache, medical_cache, parsing>>
task_vars == <<tasks, active_tasks>>

EmptyTable == [x \in {} |-> x]

ZeroCounters == [k \in CounterKeys |-> 0]

\* a Session that holds nothing, and a run that has not been scheduled
EmptySession ==
    [loaded |-> <<>>, claims |-> <<>>, i |-> 1, dirty |-> {}, added |-> <<>>,
     skipped |-> {}, stages |-> <<>>,
     processed_count |-> 0, error_counts |-> ZeroCounters,
     total_paid_by_error |-> ZeroCounters, metric_writes |-> <<>>]

NoRun == [pc |-> "none", claim_ids |-> <<>>, session |-> EmptySession,
          batch |-> "none", result |-> NoneDetails, exc |-> NoneStr,
          discarded |-> 0]

IdleRequest == [pc |-> "idle", user |-> "nobody", reason |-> <<>>]

NoCall == [op |-> "none"]

\* a parse call that has not been made
IdleParse == [pc |-> "idle"]

\* the tables and handlers when the service starts: claims uploaded earlier
\* wait in master_table
InitStore ==
    /\ master = InitialClaims
    /\ refined = EmptyTable
    /\ metrics = <<>>
    /\ tasks = EmptyTable
    /\ active_tasks = {}
    /\ requests = [r \in 1..Cardinality(TaskIds) |-> IdleRequest]
    /\ runs = [t \in TaskIds |-> NoRun]
    /\ now = 0
    /\ uploads = 0
    /\ parses = 0
    /\ ledger = [count |-> ZeroCounters, paid |-> ZeroCounters]

\* the service with both rule sets cached
InitState ==
    /\ technical_cache \in ParsedTechnicalRules
    /\ medical_cache \in ParsedMedicalRules
    /\ parsing = [calls |-> [p \in 1..MaxParsers |-> IdleParse],
                  last |-> [technical |-> technical_cache, medical |-> medical_cache]]
    /\ InitStore

Init == InitState /\ api = NoCall

\* the service started before a technical rules document was parsed (or more
\* than an hour after): only the medical rules are cached
InitCold ==
    /\ technical_cache = NoRules
    /\ medical_cache \in ParsedMedicalRules
    /\ parsing = [calls |-> [p \in 1..MaxParsers |-> IdleParse],
                  last |-> [technical |-> technical_cache, medical |-> medical_cache]]
    /\ InitStore
    /\ api = NoCall

\* ------------------------------------------------------ uploads and parsing
\* upload/router.py upload_claims_file: every row of the file is inserted, or
\* overwrites the claim with the same claim_id, and the file is committed
UploadClaimsFile(file) ==
    /\ uploads < MaxUploads
    /\ master' = [c \in DOMAIN master \cup DOMAIN file |->
                     IF c \in DOMAIN file THEN file[c] ELSE master[c]]
    /\ uploads' = uploads + 1
    /\ UNCHANGED <<refined, metrics, task_vars, cache_vars, requests, runs, now,
                   parses, api, ledger>>

\* pipeline/rules.py RuleParser.parse_technical_rules: setex of the parsed rules
ParseTechnicalRules(rules) ==
    /\ parses < MaxParses
    /\ technical_cache' = rules
    /\ parsing' = [parsing EXCEPT !.last.technical = rules]
    /\ parses' = parses + 1
    /\ UNCHANGED <<master, refined, metrics, tasks, active_tasks, medical_cache,
                   requests, runs, now, uploads, api, ledger>>

\* pipeline/rules.py RuleParser.parse_medical_rules
ParseMedicalRules(rules) ==
    /\ parses < MaxParses
    /\ medical_cache' = rules
    /\ parsing' = [parsing EXCEPT !.last.medical = rules]
    /\ parses' = parses + 1
    /\ UNCHANGED <<master, refined, metrics, tasks, active_tasks, technical_cache,
                   requests, runs, now, uploads, api, ledger>>

\* the one-hour TTL of a cached entry runs out
ExpireRules ==
    /\ \/ technical_cache # NoRules /\ technical_cache' = NoRules
             /\ UNCHANGED medical_cache
       \/ medical_cache # NoRules /\ medical_cache' = NoRules
             /\ UNCHANGED technical_cache
    /\ UNCHANGED <<master, refined, metrics, tasks, active_tasks, requests, runs,
                   now, uploads, parses, parsing, api, ledger>>

\* ---------------------------------------------------------- run_validation
ClaimOrder == <<"C1", "C2">>
SeqOfClaims(S) == SelectSeq(ClaimOrder, LAMBDA c : c \in S)

\* validation/router.py run_validation, lines 97-99: the admission check
CheckCanStart(r, user) ==
    /\ requests[r].pc = "idle"
    /\ \A q \in 1..(r-1) : requests[q].pc # "idle"   \* r-th request to arrive
    /\ \E res \in can_start_task(tasks, "validation", user) :
          requests' = [requests EXCEPT ![r] =
              [pc |-> IF res.can_start THEN "admitted" ELSE "rejected",
               user |-> user, reason |-> res.reason]]
    /\ UNCHANGED <<db_vars, task_vars, cache_vars, runs, now, uploads, parses,
                   api, ledger>>

\* validation/router.py run_validation, lines 101-127: select the claims,
\* create the task record and schedule the background run
CreateAndSchedule(r) ==
    LET req == requests[r]
        task_id == TaskIdOf(r)
        claim_ids == SeqOfClaims({c \in DOMAIN master : master[c].status = NotValidated})
        message == <<"Starting validation of ", NumStr(Len(claim_ids)), " claims">>
    IN
    /\ req.pc = "admitted"
    /\ IF claim_ids = <<>>
       THEN /\ requests' = [requests EXCEPT ![r].pc = "no_claims"]
            /\ UNCHANGED <<tasks, active_tasks, runs>>
       ELSE /\ requests' = [requests EXCEPT ![r].pc = "scheduled"]
            /\ tasks' = [t \in DOMAIN tasks \cup {task_id} |->
                            IF t = task_id
                            THEN NewTaskRow("validation", req.user, message, now)
                            ELSE tasks[t]]
            /\ active_tasks' = active_tasks \cup {task_id}
            /\ runs' = [runs EXCEPT ![task_id] =
                          [NoRun EXCEPT !.pc = "mark_running", !.claim_ids = claim_ids]]
    /\ UNCHANGED <<db_vars, cache_vars, now, uploads, parses, api, ledger>>

\* -------------------------------------------------- update_task_status call
\* shared/task_manager.py TaskManager.update_task_status: the store after the
\* call (an unknown task id changes nothing and the call returns False)
update_task_status(store, task_id, status, progress, message, details, time) ==
    IF task_id \notin DOMAIN store THEN store
    ELSE [store EXCEPT ![task_id] =
             UpdatedTaskRow(@, status, progress, message, details, time)]

\* variant: the in-memory set is left alone by an update
ActiveKept(active, store, task_id, status) == active

\* shared/task_manager.py TaskManager.update_task_status, lines 68-70
ActiveAfterUpdate(active, store, task_id, status) ==
    IF task_id \in DOMAIN store /\ status \in {Completed, Failed}
    THEN active \ {task_id} ELSE active

\* ------------------------------------------------------- process_claim_batch
\* history of a session: what the two stages returned for each claim, how
\* the LLM call that produced the medical result ended, and the cached entries
\* the two redis reads of lines 141 and 195 of pipeline/rules.py returned
StageRaised ==
    [technical_type |-> "raised", technical_errors |-> <<>>,
     medical |-> NoneDetails, llm |-> "not called"]

\* pipeline/llm.py evaluate_medical_claim lines 66-74: how the Gemini call
\* ended
LLMOutcome(response) == IF response.kind = "ok" THEN "ok" ELSE response.cause

ClaimData(claim) == [k \in ClaimDataKeys |-> claim[k]]

\* variant: one row is fetched for each listed id that has a claim, in the
\* order of the list
LoadClaimsPerId(t) ==
    LET run == runs[t]
        found == SelectSeq(run.claim_ids, LAMBDA c : c \in DOMAIN master)
        rows == [i \in 1..Len(found) |-> master[found[i]]]
    IN
    /\ run.pc = "load"
    /\ runs' = [runs EXCEPT ![t].pc = "claims",
                            ![t].session = [EmptySession EXCEPT !.loaded = rows,
                                                                !.claims = rows]]
    /\ UNCHANGED <<db_vars, task_vars, cache_vars, requests, now, uploads, parses,
                   api, ledger>>

\* pipeline/tasks.py process_claim_batch, line 33: the session loads the
\* claims whose ids were passed
LoadClaims(t) ==
    LET run == runs[t]
        found == SelectSeq(ClaimOrder,
                    LAMBDA c : c \in DOMAIN master /\ InSeq(c, run.claim_ids))
        rows == [i \in 1..Len(found) |-> master[found[i]]]
    IN
    /\ run.pc = "load"
    /\ runs' = [runs EXCEPT ![t].pc = "claims",
                            ![t].session = [EmptySession EXCEPT !.loaded = rows,
                                                                !.claims = rows]]
    /\ UNCHANGED <<db_vars, task_vars, cache_vars, requests, now, uploads, parses,
                   api, ledger>>

\* variant: the amount is added without testing that it is present
AddPaidUntested(total, paid_amount_aed) == total + paid_amount_aed

\* pipeline/tasks.py process_claim_batch, lines 119-120: an amount that is
\* None (or 0.0) is falsy and adds nothing
AddPaid(total, paid_amount_aed) ==
    IF paid_amount_aed # NoneAmount /\ paid_amount_aed # 0
    THEN total + paid_amount_aed ELSE total

\* pipeline/tasks.py process_claim_batch, lines 36-127: the body of the loop
\* for the next claim.  response is what the LLM does when called (retry: when
\* called again at line 80).
ProcessClaim(t, response) ==
    LET run == runs[t]
        ses == run.session
        claim == ses.claims[ses.i]
        claim_data == ClaimData(claim)
        technical_result == evaluate_technical_rules(technical_cache, claim_data)
        first_result == evaluate_medical_rules(medical_cache, response)
        paid == claim.paid_amount_aed
    IN
    /\ run.pc = "claims"
    /\ ses.i <= Len(ses.claims)
    /\ IF technical_result.raised
       THEN \* except: log and continue
            runs' = [runs EXCEPT ![t].session.i = @ + 1,
                                 ![t].session.skipped = @ \cup {ses.i},
                                 ![t].session.stages = Append(@, StageRaised)]
       ELSE \E retry \in IF first_result.llm_analysis = PendingLLMText
                         THEN LLMResponses ELSE {response} :
            LET medical_result ==
                    IF first_result.llm_analysis = PendingLLMText
                    THEN evaluate_medical_claim(retry) ELSE first_result
                combined_errors == technical_result.errors \o medical_result.errors
                combined_type ==
                    _combine_error_types(technical_result.type, medical_result.type)
            IN
            \E recommended_action \in _generate_recommendations(combined_errors) :
            LET updated == [claim EXCEPT
                               !.status = Validated,
                               !.error_type = combined_type,
                               !.error_explanation = Join("; ", combined_errors),
                               !.recommended_action = recommended_action]
                llm == IF first_result.llm_analysis = PendingLLMText
                       THEN LLMOutcome(retry)
                       ELSE IF medical_cache = NoRules THEN "not called"
                       ELSE LLMOutcome(response)
                written == [ses EXCEPT !.claims[ses.i] = updated,
                                       !.dirty = @ \cup {ses.i},
                                       !.added = Append(@, updated),
                                       !.stages = Append(@,
                                           [technical_type |-> technical_result.type,
                                            technical_errors |-> technical_result.errors,
                                            medical |-> medical_result,
                                            llm |-> llm,
                                            rules |-> [technical |-> technical_cache,
                                                       medical |-> medical_cache]]),
                                       !.i = @ + 1]
            IN IF combined_type \notin CounterKeys
               THEN \* KeyError at line 118; except: log and continue
                    runs' = [runs EXCEPT ![t].session =
                                [written EXCEPT !.skipped = @ \cup {ses.i}]]
               ELSE runs' = [runs EXCEPT ![t].session =
                        [written EXCEPT
                            !.error_counts[combined_type] = @ + 1,
                            !.total_paid_by_error[combined_type] = AddPaid(@, paid),
                            !.processed_count = @ + 1]]
    /\ UNCHANGED <<db_vars, task_vars, cache_vars, requests, now, uploads, parses,
                   api, ledger>>

\* variant: a claim whose evaluation raises cancels the run, the task is
\* marked failed while the loop goes on
ProcessClaimRaisesFailsTask(t) ==
    LET run == runs[t]
        ses == run.session
    IN
    /\ run.pc = "claims"
    /\ ses.i <= Len(ses.claims)
    /\ runs' = [runs EXCEPT ![t].session.i = @ + 1,
                            ![t].session.skipped = @ \cup {ses.i},
                            ![t].session.stages = Append(@, StageRaised)]
    /\ tasks' = update_task_status(tasks, t, Failed, NoneInt, <<"Validation failed">>,
                                   NoneDetails, now)
    /\ UNCHANGED <<db_vars, active_tasks, cache_vars, requests, now, uploads, parses,
                   api, ledger>>

\* pipeline/rules.py lines 141 and 195 reached from pipeline/tasks.py 53-57:
\* the Redis read of the rules raises (connection lost) before anything is
\* set on the claim; except: log and continue
ProcessClaimRaises(t) ==
    LET run == runs[t]
        ses == run.session
    IN
    /\ run.pc = "claims"
    /\ ses.i <= Len(ses.claims)
    /\ runs' = [runs EXCEPT ![t].session.i = @ + 1,
                            ![t].session.skipped = @ \cup {ses.i},
                            ![t].session.stages = Append(@, StageRaised)]
    /\ UNCHANGED <<db_vars, task_vars, cache_vars, requests, now, uploads, parses,
                   api, ledger>>

KeyOrder == <<NoError, MedicalError, TechnicalError, Both>>
OutcomeFields == {"status", "error_type", "error_explanation", "recommended_action"}

\* .first() of the metrics query for one error type (0: no such row)
FirstMetric(rows, error_type) ==
    IF \E i \in 1..Len(rows) : rows[i].error_type = error_type
    THEN CHOOSE i \in 1..Len(rows) :
            /\ rows[i].error_type = error_type
            /\ \A j \in 1..(i-1) : rows[j].error_type # error_type
    ELSE 0

\* a write that stores this batch's numbers over an existing row
MetricWriteReplaces(rows, error_type, count, paid) ==
    [idx |-> FirstMetric(rows, error_type), error_type |-> error_type,
     claim_count |-> count, total_paid_amount |-> paid]

\* pipeline/tasks.py process_claim_batch, lines 142-152: the write for one
\* error type; an existing row is incremented, else a row is added
MetricWrite(rows, error_type, count, paid) ==
    LET idx == FirstMetric(rows, error_type)
    IN [idx |-> idx, error_type |-> error_type,
        claim_count |-> IF idx > 0 THEN rows[idx].claim_count + count ELSE count,
        total_paid_amount |-> IF idx > 0 THEN rows[idx].total_paid_amount + paid
                              ELSE paid]

\* pipeline/tasks.py process_claim_batch, lines 130-152: after the last claim,
\* read the aggregates and prepare the metric writes
Aggregate(t) ==
    LET run == runs[t]
        ses == run.session
        keys == SelectSeq(KeyOrder, LAMBDA k : ses.error_counts[k] > 0)
        writes == [n \in 1..Len(keys) |->
                     MetricWrite(metrics, keys[n], ses.error_counts[keys[n]],
                                 ses.total_paid_by_error[keys[n]])]
    IN
    /\ run.pc = "claims"
    /\ ses.i > Len(ses.claims)
    /\ runs' = [runs EXCEPT ![t].pc = "commit", ![t].session.metric_writes = writes]
    /\ UNCHANGED <<db_vars, task_vars, cache_vars, requests, now, uploads, parses,
                   api, ledger>>

\* pipeline/tasks.py process_claim_batch, lines 130-168: a metrics query of
\* the aggregation raises; the transaction is rolled back and the exception
\* re-raised
AggregateFails(t) ==
    LET run == runs[t]
        ses == run.session
    IN
    /\ run.pc = "claims"
    /\ ses.i > Len(ses.claims)
    /\ runs' = [runs EXCEPT ![t].pc = "mark_failed", ![t].batch = "raised",
                            ![t].exc = <<"OperationalError: server closed the connection">>,
                            ![t].discarded = Cardinality(ses.dirty) + Len(ses.added),
                            ![t].session = EmptySession]
    /\ UNCHANGED <<db_vars, task_vars, cache_vars, requests, now, uploads, parses,
                   api, ledger>>

\* an INSERT into refined_table would repeat a claim_id
UniqueViolation(ses) ==
    \E i \in 1..Len(ses.added) : ses.added[i].claim_id[1] \in DOMAIN refined

\* the UPDATE the session flushes for a modified claim sets the attributes
\* whose value differs from the loaded one
FlushedRow(current, loaded, claim) ==
    [f \in DOMAIN current |->
        IF f \in OutcomeFields /\ claim[f] # loaded[f] THEN claim[f] ELSE current[f]]

MasterAfterCommit(ses) ==
    [c \in DOMAIN master |->
        IF \E i \in ses.dirty : ses.loaded[i].claim_id = <<c>>
        THEN LET i == CHOOSE i \in ses.dirty : ses.loaded[i].claim_id = <<c>>
             IN FlushedRow(master[c], ses.loaded[i], ses.claims[i])
        ELSE master[c]]

RefinedAfterCommit(ses) ==
    LET new == {ses.added[i].claim_id[1] : i \in 1..Len(ses.added)}
    IN [c \in DOMAIN refined \cup new |->
           IF c \in new
           THEN LET i == CHOOSE i \in 1..Len(ses.added) : ses.added[i].claim_id[1] = c
                IN ses.added[i]
           ELSE refined[c]]

MetricsAfterCommit(ses) ==
    LET w == ses.metric_writes
        updated == [i \in 1..Len(metrics) |->
                      IF \E n \in 1..Len(w) : w[n].idx = i
                      THEN LET n == CHOOSE n \in 1..Len(w) : w[n].idx = i
                           IN [metrics[i] EXCEPT
                                 !.claim_count = w[n].claim_count,
                                 !.total_paid_amount = w[n].total_paid_amount]
                      ELSE metrics[i]]
        inserts == SelectSeq(w, LAMBDA x : x.idx = 0)
    IN updated \o [n \in 1..Len(inserts) |->
                     [error_type |-> inserts[n].error_type,
                      claim_count |-> inserts[n].claim_count,
                      total_paid_amount |-> inserts[n].total_paid_amount,
                      tenant_id |-> "default"]]

BatchResult(ses) ==
    [processed_count |-> ses.processed_count, error_counts |-> ses.error_counts,
     total_paid_by_error |-> ses.total_paid_by_error]

\* pipeline/tasks.py process_claim_batch, lines 154-161: db.commit() succeeds
\* and the result is returned
Commit(t) ==
    LET run == runs[t]
        ses == run.session
    IN
    /\ run.pc = "commit"
    /\ ~UniqueViolation(ses)
    /\ master' = MasterAfterCommit(ses)
    /\ refined' = RefinedAfterCommit(ses)
    /\ metrics' = MetricsAfterCommit(ses)
    /\ ledger' = [count |-> [k \in CounterKeys |-> ledger.count[k] + ses.error_counts[k]],
                  paid |-> [k \in CounterKeys |->
                               ledger.paid[k] + ses.total_paid_by_error[k]]]
    /\ runs' = [runs EXCEPT ![t].pc = "mark_completed", ![t].batch = "returned",
                            ![t].result = BatchResult(ses),
                            ![t].session = EmptySession]
    /\ UNCHANGED <<task_vars, cache_vars, requests, now, uploads, parses, api>>

\* a rollback after the claim updates were already flushed and kept
RollbackKeepsClaims(ses) == MasterAfterCommit(ses)

\* pipeline/tasks.py process_claim_batch, line 164: db.rollback() discards
\* what the session holds; master_table is as the database has it
Rollback(ses) == master

\* pipeline/tasks.py process_claim_batch, lines 154 and 163-168: the flush or
\* the commit raises (a repeated refined claim_id, or the database fails); the
\* transaction is rolled back and the exception re-raised
CommitFails(t) ==
    LET run == runs[t]
        ses == run.session
    IN
    /\ run.pc = "commit"
    /\ master' = Rollback(ses)
    /\ UNCHANGED <<refined, metrics>>
    /\ runs' = [runs EXCEPT ![t].pc = "mark_failed", ![t].batch = "raised",
                            ![t].exc = IF UniqueViolation(ses)
                                       THEN <<"IntegrityError: duplicate key refined_table.claim_id">>
                                       ELSE <<"OperationalError: server closed the connection">>,
                            ![t].discarded = Cardinality(ses.dirty) + Len(ses.added)
                                                + Len(ses.metric_writes),
                            ![t].session = EmptySession]
    /\ UNCHANGED <<task_vars, cache_vars, requests, now, uploads, parses, api,
                   ledger>>

\* ------------------------------------------ process_claim_batch_with_tracking
StoreError == <<"OperationalError: task store unavailable">>

\* validation/router.py lines 24-27: the task is marked running
MarkRunning(t) ==
    LET run == runs[t]
        message == <<"Processing ", NumStr(Len(run.claim_ids)), " claims...">>
    IN
    /\ run.pc = "mark_running"
    /\ tasks' = update_task_status(tasks, t, Running, 10, message, NoneDetails, now)
    /\ active_tasks' = ActiveAfterUpdate(active_tasks, tasks, t, Running)
    /\ runs' = [runs EXCEPT ![t].pc = "load"]
    /\ UNCHANGED <<db_vars, cache_vars, requests, now, uploads, parses, api,
                   ledger>>

\* validation/router.py lines 24-27 and 42: SessionLocal() or the update
\* raises before anything is committed; control passes to the except block
MarkRunningRaises(t) ==
    /\ runs[t].pc = "mark_running"
    /\ runs' = [runs EXCEPT ![t].pc = "mark_failed", ![t].exc = StoreError]
    /\ UNCHANGED <<db_vars, task_vars, cache_vars, requests, now, uploads, parses,
                   api, ledger>>

\* validation/router.py lines 33-40: the task is marked completed
MarkCompleted(t) ==
    LET run == runs[t]
        message == <<"Successfully processed ",
                     NumStr(run.result.processed_count), " claims">>
    IN
    /\ run.pc = "mark_completed"
    /\ tasks' = update_task_status(tasks, t, Completed, 100, message, run.result, now)
    /\ active_tasks' = ActiveAfterUpdate(active_tasks, tasks, t, Completed)
    /\ runs' = [runs EXCEPT ![t].pc = "done"]
    /\ UNCHANGED <<db_vars, cache_vars, requests, now, uploads, parses, api,
                   ledger>>

\* validation/router.py lines 33-42: the update to completed raises
MarkCompletedRaises(t) ==
    /\ runs[t].pc = "mark_completed"
    /\ runs' = [runs EXCEPT ![t].pc = "mark_failed", ![t].exc = StoreError]
    /\ UNCHANGED <<db_vars, task_vars, cache_vars, requests, now, uploads, parses,
                   api, ledger>>

\* validation/router.py lines 42-50: the task is marked failed and the
\* exception re-raised
MarkFailed(t) ==
    LET run == runs[t]
        message == <<"Validation failed: ">> \o run.exc
    IN
    /\ run.pc = "mark_failed"
    /\ tasks' = update_task_status(tasks, t, Failed, NoneInt, message, NoneDetails, now)
    /\ active_tasks' = ActiveAfterUpdate(active_tasks, tasks, t, Failed)
    /\ runs' = [runs EXCEPT ![t].pc = "done"]
    /\ UNCHANGED <<db_vars, cache_vars, requests, now, uploads, parses, api,
                   ledger>>

\* validation/router.py lines 44-47: the update to failed raises as well
MarkFailedRaises(t) ==
    /\ runs[t].pc = "mark_failed"
    /\ runs' = [runs EXCEPT ![t].pc = "done"]
    /\ UNCHANGED <<db_vars, task_vars, cache_vars, requests, now, uploads, parses,
                   api, ledger>>

\* ------------------------------------------------------------ specification
\* the steps of the background run of task t
TrackedRun(t, responses) ==
    \/ MarkRunning(t)
    \/ MarkRunningRaises(t)
    \/ LoadClaims(t)
    \/ \E response \in responses : ProcessClaim(t, response)
    \/ ProcessClaimRaises(t)
    \/ Aggregate(t)
    \/ AggregateFails(t)
    \/ Commit(t)
    \/ CommitFails(t)
    \/ MarkCompleted(t)
    \/ MarkCompletedRaises(t)
    \/ MarkFailed(t)
    \/ MarkFailedRaises(t)

NoRunInProgress ==
    /\ \A t \in TaskIds : runs[t].pc \in {"none", "done"}
    /\ \A r \in DOMAIN requests : requests[r].pc # "admitted"

\* The service with its whole environment: claim uploads, rule parsing, TTL
\* expiry, every LLM behaviour; MaxTracked validation requests.
Next ==
    \/ \E file \in UploadFiles : UploadClaimsFile(file)
    \/ \E rules \in ParsedTechnicalRules : ParseTechnicalRules(rules)
    \/ \E rules \in ParsedMedicalRules : ParseMedicalRules(rules)
    \/ ExpireRules
    \/ \E r \in 1..MaxTracked, user \in Users : CheckCanStart(r, user)
    \/ \E r \in 1..MaxTracked : CreateAndSchedule(r)
    \/ \E t \in TaskIds : TrackedRun(t, LLMResponses)

Spec == Init /\ [][Next]_vars

\* Validation requests and their background runs when every run is scheduled
\* fairly: a run that can take a step eventually takes one, and every call it
\* makes returns or raises.  The rules stay cached.
NextFair ==
    \/ \E r \in 1..MaxTracked, user \in Users : CheckCanStart(r, user)
    \/ \E r \in 1..MaxTracked : CreateAndSchedule(r)
    \/ \E t \in TaskIds : TrackedRun(t, LLMResponses)

\* a step of the run of task t; the disjuncts of TrackedRun, the step of a
\* raising claim first
RunStep(t) == ProcessClaimRaises(t) \/ TrackedRun(t, LLMResponses)

SpecFair == Init /\ [][NextFair]_vars /\ \A t \in TaskIds : WF_vars(RunStep(t))

\* Validation requests made one after another: a request arrives when no
\* background run is in progress.  Rules may expire between and during runs.
NextSerial ==
    \/ ExpireRules
    \/ \E r \in 1..MaxRequests, user \in Users : NoRunInProgress /\ CheckCanStart(r, user)
    \/ \E r \in 1..MaxRequests : CreateAndSchedule(r)
    \/ \E t \in TaskIds : TrackedRun(t, LLMResponses)

SpecSerial == Init /\ [][NextSerial]_vars

\* Validation requests that arrive at any time, also while another request or
\* run is in progress; the rule caches do not change.
NextRace ==
    \/ \E r \in 1..MaxRequests, user \in Users : CheckCanStart(r, user)
    \/ \E r \in 1..MaxRequests : CreateAndSchedule(r)
    \/ \E t \in TaskIds : TrackedRun(t, LLMResponses)

SpecRace == Init /\ [][NextRace]_vars

\* The same concurrent requests against a service that has no technical
\* rules cached.
SpecColdRace == InitCold /\ [][NextRace]_vars

\* Validation requests made one after another, with a claim file uploaded
\* between them: a validated claim is ingested again and validated again.
NextReingest ==
    \/ \E file \in UploadFiles : NoRunInProgress /\ UploadClaimsFile(file)
    \/ \E r \in 1..MaxRequests, user \in Users : NoRunInProgress /\ CheckCanStart(r, user)
    \/ \E r \in 1..MaxRequests : CreateAndSchedule(r)
    \/ \E t \in TaskIds : TrackedRun(t, LLMResponses)

SpecReingest == Init /\ [][NextReingest]_vars

\* ------------------------------------------ process_claim_batch called directly
\* the lists of ids a caller may pass: in any order, with repeated ids and
\* with an id ("C9") that no claim has
ListedIds == {"C1", "C2", "C9"}
ClaimIdLists == UNION {[1..n -> ListedIds] : n \in 0..MaxIds}

\* the run that is called directly
DirectRun == TaskIdOf(1)

\* pipeline/tasks.py process_claim_batch, line 18: the call with a list of ids
CallProcessClaimBatch(t, claim_ids) ==
    /\ runs[t].pc = "none"
    /\ runs' = [runs EXCEPT ![t] = [NoRun EXCEPT !.pc = "load",
                                                 !.claim_ids = claim_ids]]
    /\ UNCHANGED <<db_vars, task_vars, cache_vars, requests, now, uploads, parses,
                   api, ledger>>

\* pipeline/tasks.py process_claim_batch, lines 18-168: one call, to its return
\* or its exception
NextBatch ==
    \/ \E claim_ids \in ClaimIdLists : CallProcessClaimBatch(DirectRun, claim_ids)
    \/ LoadClaims(DirectRun)
    \/ \E response \in LLMResponses : ProcessClaim(DirectRun, response)
    \/ ProcessClaimRaises(DirectRun)
    \/ Aggregate(DirectRun)
    \/ AggregateFails(DirectRun)
    \/ Commit(DirectRun)
    \/ CommitFails(DirectRun)

SpecBatch == Init /\ [][NextBatch]_vars

\* ----------------------------------------------- the TaskManager called directly
UpdateArguments ==
    { [progress |-> NoneInt, message |-> NoneStr, details |-> NoneDetails],
      [progress |-> 50, message |-> <<"halfway">>, details |-> NoneDetails],
      [progress |-> NoneInt, message |-> NoneStr,
       details |-> [processed_count |-> 1]],
      [progress |-> 100, message |-> <<"finished">>,
       details |-> [processed_count |-> 2]] }

Calls == IF api.op = "none" THEN 0 ELSE api.n

\* shared/task_manager.py TaskManager.create_task with a fresh task id
CreateTask(task_id, task_type, user_id) ==
    /\ Calls < MaxApiCalls
    /\ task_id \notin DOMAIN tasks
    /\ tasks' = [t \in DOMAIN tasks \cup {task_id} |->
                    IF t = task_id
                    THEN NewTaskRow(task_type, user_id, <<"Task started">>, now)
                    ELSE tasks[t]]
    /\ active_tasks' = active_tasks \cup {task_id}
    /\ api' = [op |-> "create_task", n |-> Calls + 1]
    /\ UNCHANGED <<db_vars, cache_vars, requests, runs, now, uploads, parses,
                   ledger>>

\* shared/task_manager.py TaskManager.update_task_status
UpdateTaskStatus(task_id, status, a) ==
    /\ Calls < MaxApiCalls
    /\ tasks' = update_task_status(tasks, task_id, status, a.progress, a.message,
                                   a.details, now)
    /\ active_tasks' = ActiveAfterUpdate(active_tasks, tasks, task_id, status)
    /\ api' = [op |-> "update_task_status", n |-> Calls + 1, task_id |-> task_id,
               status |-> status, args |-> a, returned |-> task_id \in DOMAIN tasks]
    /\ UNCHANGED <<db_vars, cache_vars, requests, runs, now, uploads, parses,
                   ledger>>

\* variant: a TaskManager that tracks no task in memory admits without a query
CanStartTaskFromMemory(task_type, user_id) ==
    /\ Calls < MaxApiCalls
    /\ \E res \in IF active_tasks = {} THEN {TaskCanBeStarted}
                   ELSE can_start_task(tasks, task_type, user_id) :
          api' = [op |-> "can_start_task", n |-> Calls + 1, task_type |-> task_type,
                  user_id |-> user_id, can_start |-> res.can_start,
                  reason |-> res.reason]
    /\ UNCHANGED <<db_vars, task_vars, cache_vars, requests, runs, now, uploads,
                   parses, ledger>>

\* shared/task_manager.py TaskManager.can_start_task
CanStartTask(task_type, user_id) ==
    /\ Calls < MaxApiCalls
    /\ \E res \in can_start_task(tasks, task_type, user_id) :
          api' = [op |-> "can_start_task", n |-> Calls + 1, task_type |-> task_type,
                  user_id |-> user_id, can_start |-> res.can_start,
                  reason |-> res.reason]
    /\ UNCHANGED <<db_vars, task_vars, cache_vars, requests, runs, now, uploads,
                   parses, ledger>>

\* shared/task_manager.py lines 15-16 and 122: the process starts again and
\* the new TaskManager tracks nothing; the task_status table is as it was
Restart ==
    /\ active_tasks # {}
    /\ active_tasks' = {}
    /\ UNCHANGED <<db_vars, tasks, cache_vars, requests, runs, now, uploads, parses,
                   api, ledger>>

\* datetime.utcnow() moves on
Tick ==
    /\ now < MaxTime
    /\ now' = now + 1
    /\ UNCHANGED <<db_vars, task_vars, cache_vars, requests, runs, uploads, parses,
                   api, ledger>>

\* Any caller of the TaskManager: its methods called in any order with any
\* arguments.
NextTaskManager ==
    \/ \E task_id \in TaskIds, task_type \in TaskTypes, user_id \in Users :
          CreateTask(task_id, task_type, user_id)
    \/ \E task_id \in TaskIds, status \in Statuses, a \in UpdateArguments :
          UpdateTaskStatus(task_id, status, a)
    \/ \E task_type \in TaskTypes, user_id \in Users : CanStartTask(task_type, user_id)
    \/ Restart
    \/ Tick

SpecTaskManager == Init /\ [][NextTaskManager]_vars

\* ------------------------------------------------------------ cleanup_old_tasks
\* datetime.isoformat(), the text create_task stores in created_at: it starts
\* with the first digit of the year; the instant orders the rest
isoformat(time) == <<2, time>>

\* the text of the float datetime.utcnow().timestamp() gives: seconds since
\* 1970 start with the digit 1; the instant orders the rest
TimestampText(timestamp) == <<1, timestamp>>

\* texts are compared character by character
TextLess(a, b) == IF a[1] # b[1] THEN a[1] < b[1] ELSE a[2] < b[2]

\* shared/task_manager.py line 111, TaskStatus.created_at < cutoff_date: a
\* text column compared with a float.  What the comparison does is the
\* database's choice: the float is compared as text, or the text is cast to a
\* number (its leading digits, the year, against the seconds since 1970), or
\* the statement is rejected.
DatabaseComparisons == {"as text", "as number", "rejected"}

\* variant: created_at and the cutoff are compared as instants
CreatedBeforeCutoffAsInstants(comparison, created_at, cutoff_date) ==
    created_at < cutoff_date

CreatedBeforeCutoff(comparison, created_at, cutoff_date) ==
    IF comparison = "as text"
    THEN TextLess(isoformat(created_at), TimestampText(cutoff_date))
    ELSE 2026 < 1700000000 + cutoff_date

\* shared/task_manager.py cleanup_old_tasks, lines 105-113: the rows the
\* DELETE removes
cleanup_old_tasks(store, days_old, time, comparison) ==
    {t \in DOMAIN store :
        /\ store[t].status \in {Completed, Failed}
        /\ CreatedBeforeCutoff(comparison, store[t].created_at, time - days_old)}

\* shared/task_manager.py TaskManager.cleanup_old_tasks
CleanupOldTasks(days_old, comparison) ==
    LET deleted == cleanup_old_tasks(tasks, days_old, now, comparison)
    IN
    /\ Calls < MaxApiCalls
    /\ IF comparison = "rejected"
       THEN /\ UNCHANGED tasks
            /\ api' = [op |-> "cleanup_old_tasks", n |-> Calls + 1,
                       days_old |-> days_old, raised |-> TRUE,
                       deleted_count |-> NoneInt]
       ELSE /\ tasks' = [t \in DOMAIN tasks \ deleted |-> tasks[t]]
            /\ api' = [op |-> "cleanup_old_tasks", n |-> Calls + 1,
                       days_old |-> days_old, raised |-> FALSE,
                       deleted_count |-> Cardinality(deleted)]
    /\ UNCHANGED <<db_vars, active_tasks, cache_vars, requests, runs, now, uploads,
                   parses, ledger>>

\* Tasks created and updated by any caller while the clock moves on, and the
\* maintenance call that removes old ones.
NextCleanup ==
    \/ \E task_id \in TaskIds, task_type \in TaskTypes, user_id \in Users :
          CreateTask(task_id, task_type, user_id)
    \/ \E task_id \in TaskIds, status \in Statuses, a \in UpdateArguments :
          UpdateTaskStatus(task_id, status, a)
    \/ \E days_old \in 0..MaxTime, comparison \in DatabaseComparisons :
          CleanupOldTasks(days_old, comparison)
    \/ Tick

SpecCleanup == Init /\ [][NextCleanup]_vars

\* -------------------------------------------------- pure functions called directly
AllKinds == {NoError, TechnicalError, MedicalError, Both, NoRulesLoaded}

ClaimDataInputs ==
    { [claim_id |-> <<"C9">>, encounter_type |-> <<"OUTPATIENT">>,
       service_date |-> <<"2024-01-15">>, national_id |-> national_id,
       member_id |-> <<"M1">>, facility_id |-> <<"F1">>, unique_id |-> <<"U1">>,
       diagnosis_codes |-> diagnosis_codes, service_code |-> service_code,
       paid_amount_aed |-> paid_amount_aed, approval_number |-> approval_number] :
      national_id \in {<<"N1">>, NoneStr},
      diagnosis_codes \in {NoneStr, <<>>, <<"E11.9", ",", " ", "I10">>,
                           <<"I10", ",", "I10">>},
      service_code \in {<<"SRV1">>, <<"SRV2">>, NoneStr},
      paid_amount_aed \in {NoneAmount, 0, 500, 1000, 1500},
      approval_number \in {NoneStr, <<>>, <<"APP1">>} }

\* error strings the two stages produce: the technical errors of rules.py, a
\* concern of the LLM, the fallback errors of llm.py (str of a pydantic
\* ValidationError spans several lines)
ErrorStrings ==
    { RequiredFieldError("national_id"), ThresholdError(1500, 1000),
      ServiceApprovalError(<<"SRV1">>),
      <<Bullet, " ", "Service not medically necessary">>,
      <<"Approval exceeds THRESHOLD for medical service">>,
      <<"Rate limit exceeded - using basic analysis">>,
      <<"LLM evaluation failed: ", "1 validation error for MedicalAnalysisResponse",
        Newline, "confidence_score">> }

\* the lists of at most MaxErrors error strings
ErrorLists == UNION {[1..n -> ErrorStrings] : n \in 0..MaxErrors}

PureCalls ==
    { [op |-> "_combine_error_types", technical_type |-> t, medical_type |-> m,
       done |-> FALSE] : t, m \in AllKinds }
    \cup
    { [op |-> "evaluate_technical_rules", technical_rules |-> rules,
       claim_data |-> claim_data, done |-> FALSE] :
      rules \in {NoRules} \cup TechnicalRuleSets, claim_data \in ClaimDataInputs }
    \cup
    { [op |-> "_parse_error_explanation", errors |-> errors, done |-> FALSE] :
      errors \in ErrorLists }
    \cup
    { [op |-> "_generate_recommendations", errors |-> errors, done |-> FALSE] :
      errors \in ErrorLists }

CallCombine ==
    /\ api.op = "_combine_error_types" /\ ~api.done
    /\ api' = [op |-> api.op, technical_type |-> api.technical_type,
               medical_type |-> api.medical_type, done |-> TRUE,
               result |-> _combine_error_types(api.technical_type, api.medical_type)]
    /\ UNCHANGED <<db_vars, task_vars, cache_vars, requests, runs, now, uploads,
                   parses, ledger>>

CallEvaluateTechnical ==
    /\ api.op = "evaluate_technical_rules" /\ ~api.done
    /\ api' = [op |-> api.op, technical_rules |-> api.technical_rules,
               claim_data |-> api.claim_data, done |-> TRUE,
               result |-> evaluate_technical_rules(api.technical_rules, api.claim_data)]
    /\ UNCHANGED <<db_vars, task_vars, cache_vars, requests, runs, now, uploads,
                   parses, ledger>>

\* the two decoders applied to one text
Decoded(error_text) ==
    [services |-> _parse_error_explanation(error_text),
     router |-> parse_error_explanation(error_text)]

\* a list of errors stored in each of its three encodings (the legacy text,
\* the JSON array, the "; "-joined text of process_claim_batch) and read back
CallParseErrorExplanation ==
    /\ api.op = "_parse_error_explanation" /\ ~api.done
    /\ api' = [op |-> api.op, errors |-> api.errors, done |-> TRUE,
               result |-> [legacy |-> Decoded(LegacyEncode(api.errors)),
                           json |-> Decoded(JsonEncode(api.errors)),
                           joined |-> Decoded(Join("; ", api.errors))]]
    /\ UNCHANGED <<db_vars, task_vars, cache_vars, requests, runs, now, uploads,
                   parses, ledger>>

\* _generate_recommendations called on one list of errors in two worker
\* processes (each process has its own string hash seed)
CallGenerateRecommendations ==
    /\ api.op = "_generate_recommendations" /\ ~api.done
    /\ \E result, again \in _generate_recommendations(api.errors) :
          api' = [op |-> api.op, errors |-> api.errors, done |-> TRUE,
                  result |-> result, again |-> again]
    /\ UNCHANGED <<db_vars, task_vars, cache_vars, requests, runs, now, uploads,
                   parses, ledger>>

InitPure == InitState /\ api \in PureCalls

NextPure ==
    \/ CallCombine
    \/ CallEvaluateTechnical
    \/ CallParseErrorExplanation
    \/ CallGenerateRecommendations

SpecPure == InitPure /\ [][NextPure]_vars

\* ------------------------------------------------------------ the rule store
\* a rule document: whether PdfReader can read the file, and the amount its
\* text gives after "paid amount", if any
RuleDocuments ==
    { [readable |-> FALSE, threshold |-> NoneAmount],
      [readable |-> TRUE, threshold |-> NoneAmount],
      [readable |-> TRUE, threshold |-> 500] }

RuleKinds == {"technical", "medical"}

\* pipeline/llm.py extract_rules_from_pdf returned {}: the call or the
\* validation of its response failed
EmptyExtraction == [empty |-> TRUE]

\* what extract_rules_from_pdf can return for a document of the kind
Extractions(rule_type) ==
    {EmptyExtraction} \cup (IF rule_type = "technical"
                            THEN ParsedTechnicalRules \cup {ExtractedTechnicalRules}
                            ELSE ParsedMedicalRules)

\* variant: the threshold written in the document is not looked for
ThresholdIgnoresText(text, default) == default

\* pipeline/rules.py RuleParser._extract_threshold
_extract_threshold(text, default) ==
    IF text.threshold = NoneAmount THEN default ELSE text.threshold

\* pipeline/rules.py parse_technical_rules 28-36, parse_medical_rules 56-65:
\* the extracted rules, or the fallback when the extraction gave nothing
RulesToCache(rule_type, text, rules) ==
    IF rules # EmptyExtraction THEN rules
    ELSE IF rule_type = "technical"
    THEN TechnicalFallback(_extract_threshold(text, 1000))
    ELSE FallbackMedicalRules

\* variant: the new rule set is merged into the entry it replaces
SetexMergesFields(entry, rules) ==
    IF entry \in {NoRules, MalformedEntry} THEN rules
    ELSE [f \in DOMAIN entry \cup DOMAIN rules |->
             IF f \in DOMAIN rules THEN rules[f] ELSE entry[f]]

\* redis SETEX: the value of the key is replaced as a whole
Setex(entry, rules) == rules

Cached(rule_type) == IF rule_type = "technical" THEN technical_cache ELSE medical_cache

\* variant: a document that cannot be read removes the entry of its kind
ReadDocumentClearsEntry(p, rule_type, document) ==
    /\ parsing.calls[p].pc = "idle"
    /\ ~document.readable
    /\ parsing' = [parsing EXCEPT !.calls[p] =
                      [pc |-> "raised", rule_type |-> rule_type, at |-> "PdfReader",
                       exc |-> "ValueError", before |-> Cached(rule_type)]]
    /\ IF rule_type = "technical"
       THEN technical_cache' = NoRules /\ UNCHANGED medical_cache
       ELSE medical_cache' = NoRules /\ UNCHANGED technical_cache
    /\ UNCHANGED <<db_vars, task_vars, requests, runs, now, uploads, parses, api,
                   ledger>>

\* parse_technical_rules / parse_medical_rules, lines 21-25 and 49-53: the
\* document is read; a file PdfReader cannot read ends the call with ValueError
ReadDocument(p, rule_type, document) ==
    /\ parsing.calls[p].pc = "idle"
    /\ parsing' = [parsing EXCEPT !.calls[p] =
                      IF document.readable
                      THEN [pc |-> "read", rule_type |-> rule_type, text |-> document]
                      ELSE [pc |-> "raised", rule_type |-> rule_type, at |-> "PdfReader",
                            exc |-> "ValueError", before |-> Cached(rule_type)]]
    /\ UNCHANGED <<db_vars, task_vars, technical_cache, medical_cache, requests,
                   runs, now, uploads, parses, api, ledger>>

\* lines 28-36 and 56-65: the LLM extraction, which never raises, and the fallback
ExtractRules(p, extracted) ==
    LET call == parsing.calls[p]
    IN
    /\ call.pc = "read"
    /\ extracted \in Extractions(call.rule_type)
    /\ parsing' = [parsing EXCEPT !.calls[p] =
                      [pc |-> "extracted", rule_type |-> call.rule_type,
                       text |-> call.text, fallback |-> extracted = EmptyExtraction,
                       rules |-> RulesToCache(call.rule_type, call.text, extracted)]]
    /\ UNCHANGED <<db_vars, task_vars, technical_cache, medical_cache, requests,
                   runs, now, uploads, parses, api, ledger>>

\* lines 38-42 and 67-71: setex(cache_key, 3600, json.dumps(rules)), return rules
CacheRules(p) ==
    LET call == parsing.calls[p]
    IN
    /\ call.pc = "extracted"
    /\ IF call.rule_type = "technical"
       THEN /\ technical_cache' = Setex(technical_cache, call.rules)
            /\ UNCHANGED medical_cache
       ELSE /\ medical_cache' = Setex(medical_cache, call.rules)
            /\ UNCHANGED technical_cache
    /\ parsing' = [parsing EXCEPT
                      !.calls[p] = [pc |-> "returned", rule_type |-> call.rule_type,
                                    text |-> call.text, fallback |-> call.fallback,
                                    rules |-> call.rules, ttl |-> 3600],
                      !.last[call.rule_type] = call.rules]
    /\ UNCHANGED <<db_vars, task_vars, requests, runs, now, uploads, parses, api,
                   ledger>>

\* lines 44-45 and 74-75: setex raises (redis unreachable); ValueError
CacheRulesFails(p) ==
    LET call == parsing.calls[p]
    IN
    /\ call.pc = "extracted"
    /\ parsing' = [parsing EXCEPT !.calls[p] =
                      [pc |-> "raised", rule_type |-> call.rule_type, at |-> "setex",
                       exc |-> "ValueError", before |-> Cached(call.rule_type)]]
    /\ UNCHANGED <<db_vars, task_vars, technical_cache, medical_cache, requests,
                   runs, now, uploads, parses, api, ledger>>

\* pipeline/rules.py RuleParser.get_cached_rules
get_cached_rules(entry) ==
    IF entry = MalformedEntry THEN [raised |-> TRUE, rules |-> NoRules]
    ELSE [raised |-> FALSE, rules |-> entry]

GetCachedRules(rule_type) ==
    /\ api' = [op |-> "get_cached_rules", rule_type |-> rule_type,
               entry |-> Cached(rule_type),
               result |-> get_cached_rules(Cached(rule_type))]
    /\ UNCHANGED <<db_vars, task_vars, cache_vars, requests, runs, now, uploads,
                   parses, ledger>>

\* RuleEvaluator.evaluate_technical_rules against the cached entry
EvaluateTechnicalCached(claim_data) ==
    /\ api' = [op |-> "evaluate_technical_rules", technical_rules |-> technical_cache,
               claim_data |-> claim_data, done |-> TRUE,
               result |-> evaluate_technical_rules(technical_cache, claim_data)]
    /\ UNCHANGED <<db_vars, task_vars, cache_vars, requests, runs, now, uploads,
                   parses, ledger>>

\* RuleEvaluator.evaluate_medical_rules against the cached entry
EvaluateMedicalCached(response) ==
    /\ api' = [op |-> "evaluate_medical_rules", medical_rules_data |-> medical_cache,
               llm |-> IF medical_cache \in {NoRules, MalformedEntry}
                       THEN "not called" ELSE LLMOutcome(response),
               result |-> evaluate_medical_rules(medical_cache, response)]
    /\ UNCHANGED <<db_vars, task_vars, cache_vars, requests, runs, now, uploads,
                   parses, ledger>>

\* the claims evaluated against the store
StoreClaims == {ClaimData(InitialClaims[c]) : c \in DOMAIN InitialClaims}

\* Rule documents parsed by MaxParsers concurrent calls, entries read,
\* evaluated against and expiring.
NextRuleStore ==
    \/ \E p \in 1..MaxParsers, rule_type \in RuleKinds, document \in RuleDocuments :
          ReadDocument(p, rule_type, document)
    \/ \E p \in 1..MaxParsers, extracted \in Extractions("technical") \cup Extractions("medical") :
          ExtractRules(p, extracted)
    \/ \E p \in 1..MaxParsers : CacheRules(p)
    \/ \E p \in 1..MaxParsers : CacheRulesFails(p)
    \/ \E rule_type \in RuleKinds : GetCachedRules(rule_type)
    \/ \E claim_data \in StoreClaims : EvaluateTechnicalCached(claim_data)
    \/ \E response \in LLMResponses : EvaluateMedicalCached(response)
    \/ ExpireRules

SpecRuleStore == Init /\ [][NextRuleStore]_vars

\* both keys hold values that something other than the parsers wrote and
\* that are not JSON
InitMalformed ==
    /\ technical_cache = MalformedEntry
    /\ medical_cache = MalformedEntry
    /\ parsing = [calls |-> [p \in 1..MaxParsers |-> IdleParse],
                  last |-> [technical |-> NoRules, medical |-> NoRules]]
    /\ InitStore
    /\ api = NoCall

SpecMalformedStore == InitMalformed /\ [][NextRuleStore]_vars

\* ==================================================================== claims
\* the active (pending or running) tasks of the store, per type and per user
ActiveOfType(task_type) ==
    {t \in DOMAIN tasks : tasks[t].status \in {Pending, Running}
                            /\ tasks[t].task_type = task_type}
ActiveOfUser(user_id) ==
    {t \in DOMAIN tasks : tasks[t].status \in {Pending, Running}
                            /\ tasks[t].user_id = user_id}

\* C1: for technical and medical types among "No error", "Technical error"
\* and "Medical error", a _combine_error_types call returns "No error" when
\* both are "No error", the other argument when exactly one is "No error",
\* "both" when neither is, and the same value with the arguments swapped.
C1_CombineTable ==
    (api.op = "_combine_error_types" /\ api.done
        /\ api.technical_type \in InputKinds /\ api.medical_type \in InputKinds)
    => LET t == api.technical_type
           m == api.medical_type
       IN /\ (t = NoError /\ m = NoError) => api.result = NoError
          /\ (t # NoError /\ m = NoError) => api.result = t
          /\ (t = NoError /\ m # NoError) => api.result = m
          /\ (t # NoError /\ m # NoError) => api.result = Both
          /\ api.result = _combine_error_types(m, t)

C1_Witness ==
    /\ api.op = "_combine_error_types" /\ api.done
    /\ api.technical_type = TechnicalError /\ api.medical_type = MedicalError
    /\ api.result = Both

\* C2: while a task of type T is pending or running, a can_start_task call for
\* T is refused for every user, and the reason names one such task by its id
\* together with that task's status.
C2_ActiveTypeRefused ==
    (api.op = "can_start_task" /\ ActiveOfType(api.task_type) # {})
    => /\ ~api.can_start
       /\ \E t \in ActiveOfType(api.task_type) :
             api.reason = <<"Task '", t, "' is already ", tasks[t].status>>

C2_Witness ==
    /\ api.op = "can_start_task" /\ ~api.can_start
    /\ \E t \in ActiveOfType(api.task_type) :
          /\ tasks[t].user_id # api.user_id
          /\ tasks[t].status = Running
          /\ api.reason = <<"Task '", t, "' is already ", Running>>

\* C3: while a user owns a pending or running task of any type, a
\* can_start_task call by that user is refused, also for another task type.
C3_UserCapRefused ==
    (api.op = "can_start_task" /\ ActiveOfUser(api.user_id) # {}) => ~api.can_start

\* C4: whatever the interleaving of concurrent run_validation requests, at most
\* one task of a type is pending or running.
C4_SingleFlight ==
    \A task_type \in TaskTypes : Cardinality(ActiveOfType(task_type)) <= 1

\* C5: the status of a task only ever goes from pending to running and from
\* running to completed or failed, also when a status update or the batch
\* raises.
C5_StatusTransitions ==
    [][\A t \in DOMAIN tasks :
          \/ tasks'[t].status = tasks[t].status
          \/ <<tasks[t].status, tasks'[t].status>> \in
                {<<Pending, Running>>, <<Running, Completed>>, <<Running, Failed>>}]_vars

\* C6: once a task is completed or failed, no later update_task_status call
\* changes its status.
C6_TerminalIsFinal ==
    [][\A t \in DOMAIN tasks :
          tasks[t].status \in {Completed, Failed}
          => tasks'[t].status = tasks[t].status]_vars

\* C7: when the processing of one claim raises, the batch that then commits
\* leaves that claim's status, error_type, error_explanation and
\* recommended_action as they were and writes no refined row for it, while
\* every other claim of the batch is validated and gets its refined row.
C7_RaisingClaimUntouched ==
    [][\A t \in TaskIds :
          (runs[t].pc = "commit" /\ runs'[t].pc = "mark_completed")
          => \A i \in 1..Len(runs[t].session.loaded) :
                LET c == runs[t].session.loaded[i].claim_id[1]
                IN IF i \in runs[t].session.skipped
                   THEN /\ \A f \in OutcomeFields : master'[c][f] = master[c][f]
                        /\ c \in DOMAIN refined' => c \in DOMAIN refined
                   ELSE /\ master'[c].status = Validated
                        /\ c \in DOMAIN refined']_vars

\* C8: when the final aggregation or the commit of a batch fails, the
\* exception is re-raised to the caller and master_table, refined_table and
\* metrics_table are exactly as before; no step of a batch other than its
\* successful commit writes to them.
C8_FailedCommitPersistsNothing ==
    [][\A t \in TaskIds :
          /\ (runs[t].pc \in {"claims", "commit"} /\ runs'[t].batch = "raised")
             => /\ runs'[t].pc = "mark_failed"
                /\ runs'[t].exc # NoneStr
                /\ UNCHANGED db_vars
          /\ (runs[t].pc \in {"load", "claims", "commit"} /\ runs'[t] # runs[t]
                /\ runs'[t].batch # "returned")
             => UNCHANGED db_vars]_vars

C8_Witness ==
    \E t \in TaskIds :
       /\ runs[t].batch = "raised"
       /\ runs[t].discarded >= 3
       /\ refined = EmptyTable /\ metrics = <<>>
       /\ \A c \in DOMAIN master : master[c].status = NotValidated

\* C9: when a tracked run is over, a batch that raised has left its task
\* failed with the message "Validation failed: " followed by the exception,
\* and a batch that returned has left its task completed with progress 100
\* and the batch result merged into the details.
C9_OutcomeMatchesBatch ==
    \A t \in TaskIds :
       runs[t].pc = "done"
       => /\ runs[t].batch = "raised"
             => /\ tasks[t].status = Failed
                /\ tasks[t].message = <<"Validation failed: ">> \o runs[t].exc
          /\ runs[t].batch = "returned"
             => /\ tasks[t].status = Completed
                /\ tasks[t].progress = 100
                /\ \A k \in DOMAIN runs[t].result :
                      /\ k \in DOMAIN tasks[t].details
                      /\ tasks[t].details[k] = runs[t].result[k]

\* C10: with batches run one after another, metrics_table holds at most one
\* row per error type, and its claim_count and total_paid_amount are the sums
\* of the counts and paid totals of all the batches that committed.
C10_MetricsAdditive ==
    \A k \in CounterKeys :
       LET rows == {i \in 1..Len(metrics) : metrics[i].error_type = k}
       IN /\ Cardinality(rows) <= 1
          /\ ledger.count[k] = 0 => rows = {}
          /\ ledger.count[k] > 0
             => \E i \in rows : /\ metrics[i].claim_count = ledger.count[k]
                                /\ metrics[i].total_paid_amount = ledger.paid[k]

C10_Witness ==
    \E t1, t2 \in TaskIds, k \in CounterKeys, i \in 1..Len(metrics) :
       /\ t1 # t2
       /\ runs[t1].batch = "returned" /\ runs[t2].batch = "returned"
       /\ runs[t1].result.error_counts[k] >= 1
       /\ runs[t2].result.error_counts[k] >= 1
       /\ metrics[i].error_type = k
       /\ metrics[i].claim_count = runs[t1].result.error_counts[k]
                                   + runs[t2].result.error_counts[k]
       /\ metrics[i].total_paid_amount > 0
       /\ metrics[i].total_paid_amount = runs[t1].result.total_paid_by_error[k]
                                         + runs[t2].result.total_paid_by_error[k]

\* C11: whatever the interleaving of concurrent batches that count claims
\* under the same error type, once they have committed metrics_table holds
\* exactly one row for that type and its claim_count is the sum of the counts
\* of all the committed batches: no increment is lost.
C11_NoLostIncrement ==
    \A k \in CounterKeys :
       ledger.count[k] > 0
       => /\ Cardinality({i \in 1..Len(metrics) : metrics[i].error_type = k}) = 1
          /\ \A i \in 1..Len(metrics) :
                metrics[i].error_type = k => metrics[i].claim_count = ledger.count[k]

\* the stage history of the claims a run has gone through in its session
StagesOf(t) == runs[t].session.stages

\* C12: when the LLM call for a claim fails with a rate-limit signal,
\* evaluate_medical_claim returns valid, type "No error", exactly one error
\* and confidence 0.1 (1 tenth), and the batch goes on with that claim: its
\* record is set to Validated with the medical stage taken as "No error".
C12_RateLimitFallsBack ==
    \A t \in TaskIds : \A i \in 1..Len(StagesOf(t)) :
       StagesOf(t)[i].llm = "rate limit"
       => LET medical == StagesOf(t)[i].medical
              claim == runs[t].session.claims[i]
          IN /\ medical.valid
             /\ medical.type = NoError
             /\ Len(medical.errors) = 1
             /\ medical.confidence = 1
             /\ i \in runs[t].session.dirty
             /\ claim.status = Validated
             /\ claim.error_type =
                   _combine_error_types(StagesOf(t)[i].technical_type, NoError)

C12_Witness ==
    \E t \in TaskIds : \E i \in 1..Len(StagesOf(t)) :
       /\ StagesOf(t)[i].llm = "rate limit"
       /\ StagesOf(t)[i].technical_type = TechnicalError
       /\ runs[t].session.claims[i].error_type = TechnicalError
       /\ runs[t].session.error_counts[TechnicalError] = 1

\* C13: when the LLM call for a claim fails for a reason that is not a
\* rate-limit signal (the network, or a response that violates the schema),
\* evaluate_medical_claim returns valid, type "No error", exactly one error,
\* confidence 0.0 and the manual-review recommendation, never the rate-limit
\* result.
C13_OtherFailureIsGeneral ==
    \A t \in TaskIds : \A i \in 1..Len(StagesOf(t)) :
       StagesOf(t)[i].llm \in {"network", "schema"}
       => LET medical == StagesOf(t)[i].medical
          IN /\ medical.valid
             /\ medical.type = NoError
             /\ Len(medical.errors) = 1
             /\ medical.confidence = 0
             /\ medical.recommendations = <<"Manual review recommended">>
             /\ medical # _create_rate_limit_result

\* C14: in every batch, a claim whose LLM call failed (rate limit, network or
\* malformed response) is still processed, not skipped: its record is
\* written with the technical stage's type alone, never "Medical error" or
\* "both", and it is counted; the batch is not aborted by the failure.
C14_LLMFailureFailsOpen ==
    \A t \in TaskIds : \A i \in 1..Len(StagesOf(t)) :
       StagesOf(t)[i].llm \in {"rate limit", "network", "schema"}
       => /\ i \notin runs[t].session.skipped
          /\ i \in runs[t].session.dirty
          /\ runs[t].session.claims[i].error_type = StagesOf(t)[i].technical_type
          /\ runs[t].session.claims[i].error_type \notin {MedicalError, Both}
          /\ runs[t].pc \in {"claims", "commit"}

\* the finished evaluate_technical_rules call of the pure specification
TechnicalCallDone == api.op = "evaluate_technical_rules" /\ api.done

\* C15: when no technical rule set is cached, evaluate_technical_rules
\* returns valid = true, an empty error list and type "No rules loaded" for
\* every claim, whatever its fields hold, absent and empty fields included.
C15_NoRulesIsVacuouslyValid ==
    (TechnicalCallDone /\ api.technical_rules = NoRules)
    => /\ ~api.result.raised
       /\ api.result.valid
       /\ api.result.errors = <<>>
       /\ api.result.type = NoRulesLoaded

C15_Witness ==
    /\ TechnicalCallDone /\ api.technical_rules = NoRules
    /\ api.claim_data.national_id = NoneStr
    /\ api.claim_data.diagnosis_codes = NoneStr
    /\ api.claim_data.approval_number = <<>>
    /\ api.claim_data.paid_amount_aed = 1500
    /\ api.result.type = NoRulesLoaded

\* C16: every master_table row with status "Validated" has error_type among
\* "No error", "Technical error", "Medical error" and "both", and the keys of
\* the error_counts a batch returns are these four, also for batches run
\* while no technical rule set is cached.
C16_ValidatedKindIsOneOfFour ==
    /\ \A c \in DOMAIN master :
          master[c].status = Validated => master[c].error_type \in CounterKeys
    /\ \A t \in TaskIds :
          runs[t].batch = "returned"
          => DOMAIN runs[t].result.error_counts = CounterKeys

\* the errors of a result that were appended by the threshold check
IsThresholdError(error) == Len(error) >= 3 /\ error[3] = "Paid amount AED "
ThresholdErrorCount(result) ==
    Cardinality({i \in 1..Len(result.errors) : IsThresholdError(result.errors[i])})

\* C17: for every claim and every cached technical rule set,
\* evaluate_technical_rules returns with exactly one threshold error and type
\* "Technical error" when paid_amount_aed exceeds paid_amount_threshold, and
\* appends no threshold error when the amount is absent or not above it.
C17_ThresholdErrorExactlyOnce ==
    (TechnicalCallDone /\ api.technical_rules # NoRules)
    => LET paid_amount == api.claim_data.paid_amount_aed
           threshold == api.technical_rules.paid_amount_threshold
       IN IF paid_amount # NoneAmount /\ paid_amount > threshold
          THEN /\ ~api.result.raised
               /\ ThresholdErrorCount(api.result) = 1
               /\ api.result.type = TechnicalError
          ELSE ThresholdErrorCount(api.result) = 0

\* a field of the claim that is absent (null, or no field of the claim at
\* all) or empty
AbsentOrEmpty(claim_data, field) ==
    IF field \notin ClaimDataKeys THEN TRUE
    ELSE IF field = "paid_amount_aed" THEN claim_data[field] = NoneAmount
    ELSE claim_data[field] \in {NoneStr, <<>>}

RequiredErrorCount(result, field) ==
    Cardinality({i \in 1..Len(result.errors) :
                    result.errors[i] = RequiredFieldError(field)})

\* the diagnosis codes of the claim: comma-split and trimmed
DiagnosisCodesOf(claim_data) ==
    IF claim_data.diagnosis_codes = NoneStr THEN <<>>
    ELSE LET parts == Split(claim_data.diagnosis_codes, ",")
         IN [i \in 1..Len(parts) |-> Strip(parts[i])]

\* the claim needs an approval number under the rule set and has none
ApprovalMissing(rules, claim_data) ==
    /\ claim_data.approval_number \in {NoneStr, <<>>}
    /\ \/ InSeq(claim_data.service_code, rules.approval_required_services)
       \/ \E i \in 1..Len(DiagnosisCodesOf(claim_data)) :
             InSeq(DiagnosisCodesOf(claim_data)[i], rules.approval_required_diagnoses)

\* the claim violates at least one rule of the rule set
SomeRuleViolated(rules, claim_data) ==
    \/ \E i \in 1..Len(rules.required_fields) :
          AbsentOrEmpty(claim_data, rules.required_fields[i])
    \/ /\ claim_data.paid_amount_aed # NoneAmount
       /\ claim_data.paid_amount_aed > rules.paid_amount_threshold
    \/ ApprovalMissing(rules, claim_data)

\* C18: for every claim and cached technical rule set,
\* evaluate_technical_rules returns with exactly one error for each entry of
\* required_fields that is absent or empty on the claim and none for an entry
\* that is present and non-empty, and its type is "Technical error" if and
\* only if at least one rule was violated.
C18_RequiredFieldErrors ==
    (TechnicalCallDone /\ api.technical_rules # NoRules)
    => LET rules == api.technical_rules
           claim_data == api.claim_data
       IN /\ ~api.result.raised
          /\ \A i \in 1..Len(rules.required_fields) :
                RequiredErrorCount(api.result, rules.required_fields[i])
                   = IF AbsentOrEmpty(claim_data, rules.required_fields[i])
                     THEN 1 ELSE 0
          /\ api.result.type = IF SomeRuleViolated(rules, claim_data)
                               THEN TechnicalError ELSE NoError

\* the errors of a result that were appended by the two approval checks
IsApprovalError(error) ==
    Len(error) >= 3 /\ error[3] \in {"Service code ", "Diagnosis code "}
ApprovalErrorCount(result) ==
    Cardinality({i \in 1..Len(result.errors) : IsApprovalError(result.errors[i])})

\* C19: for every claim and cached technical rule set, no approval error is
\* produced when the claim has an approval number; when it has none and its
\* service code requires approval or any of its comma-split, trimmed
\* diagnosis codes does, exactly one approval error is produced and the type is
\* "Technical error": one in all, not one per matching code, also when
\* several diagnoses match or the service code and a diagnosis both match.
C19_ExactlyOneApprovalError ==
    (TechnicalCallDone /\ api.technical_rules # NoRules)
    => LET rules == api.technical_rules
           claim_data == api.claim_data
       IN IF claim_data.approval_number \notin {NoneStr, <<>>}
          THEN ApprovalErrorCount(api.result) = 0
          ELSE ApprovalMissing(rules, claim_data)
               => /\ ~api.result.raised
                  /\ ApprovalErrorCount(api.result) = 1
                  /\ api.result.type = TechnicalError

\* C20: for every claim a batch processed, the error_explanation stored by
\* the commit, read back through get_claim, is a list with as many entries as
\* the technical stage and the medical stage produced errors together, the
\* technical errors first, each list in its order.
C20_ExplanationReadsBackAsList ==
    [][\A t \in TaskIds :
          (runs[t].pc = "commit" /\ runs'[t].pc = "mark_completed")
          => \A i \in runs[t].session.dirty \ runs[t].session.skipped :
                LET c == runs[t].session.loaded[i].claim_id[1]
                    combined_errors == StagesOf(t)[i].technical_errors
                                          \o StagesOf(t)[i].medical.errors
                    read == get_claim(master'[c])
                IN /\ Len(read) = Len(combined_errors)
                   /\ \A k \in 1..Len(read) :
                         read[k] = LStripBullet(combined_errors[k])]_vars

\* the finished decoding call of the pure specification
ParseCallDone == api.op = "_parse_error_explanation" /\ api.done

\* an error string that spans several lines
HasNewline(error) == InSeq(Newline, error)

\* the bare strings of a list of errors: leading bullets and blanks removed
BareStrings(errors) == [i \in 1..Len(errors) |-> LStripBullet(errors[i])]

C22_ReprocessOverwritesRefined ==
    /\ \A t \in TaskIds :
          runs[t].exc # <<"IntegrityError: duplicate key refined_table.claim_id">>
    /\ \A c \in DOMAIN refined :
          master[c].status = Validated
          => \A f \in DOMAIN master[c] : refined[c][f] = master[c][f]

\* the advice of the first keyword, in the order threshold, required, approval,
\* medical, that occurs in the error; the generic advice when none does
FirstKeywordAdvice(error) ==
    LET keywords == <<"threshold", "required", "approval", "medical">>
        advice == <<"Review payment amount against policy limits",
                    "Complete missing required fields",
                    "Verify approval number format and validity",
                    "Consult medical guidelines for service necessity">>
        hits == {k \in 1..4 : KeywordIn(keywords[k], error)}
    IN IF hits = {} THEN "Manual review required"
       ELSE advice[CHOOSE k \in hits : \A j \in hits : k <= j]

\* the advices of a recommendation string, in its order
AdvicesOf(recommended_action) ==
    IF recommended_action = <<>> THEN <<>>
    ELSE LET parts == Split(recommended_action, "; ")
         IN [i \in 1..Len(parts) |-> parts[i][1]]

\* C23, content: the recommendation holds, for each error, the advice of the
\* first keyword that matches it, each advice once and nothing else, and is
\* empty for an empty list of errors.
RecommendationContent(errors, recommended_action) ==
    LET advices == AdvicesOf(recommended_action)
    IN /\ \A i \in 1..Len(errors) : InSeq(FirstKeywordAdvice(errors[i]), advices)
       /\ \A i \in 1..Len(advices) :
             \E j \in 1..Len(errors) : advices[i] = FirstKeywordAdvice(errors[j])
       /\ \A i, j \in 1..Len(advices) : advices[i] = advices[j] => i = j
       /\ errors = <<>> => recommended_action = <<>>

\* C23: for every list of error strings the recommended action holds, for
\* each error, the advice of the first matching keyword (threshold, required,
\* approval, medical, else manual review), each advice at most once; it is
\* empty for an empty list; and the same list always yields the same string.
C23_RecommendationIsAFunction ==
    (api.op = "_generate_recommendations" /\ api.done)
    => /\ RecommendationContent(api.errors, api.result)
       /\ RecommendationContent(api.errors, api.again)
       /\ api.again = api.result

\* a parse call p writes its rule set in this step
Writes(p, rule_type) ==
    /\ parsing.calls[p].pc = "extracted"
    /\ parsing.calls[p].rule_type = rule_type
    /\ parsing'.calls[p].pc = "returned"

\* the entry read back is absent or the rule set of the latest parse that returned
HoldsLatestParse(rule_type, entry, latest) ==
    entry # NoRules => entry = latest[rule_type]

\* C24: get_cached_rules returns exactly the rule set of the most recent
\* successful parse of the kind (or nothing once the entry expired), the
\* entry changes only by expiring or by one parse call writing its whole rule
\* set, also when two calls parse the same kind at once, and no evaluation or
\* read changes an entry.
C24_EntryIsLatestWholeRuleSet ==
    [][\A rule_type \in RuleKinds :
          LET entry == IF rule_type = "technical" THEN technical_cache ELSE medical_cache
              entry_after == IF rule_type = "technical" THEN technical_cache'
                             ELSE medical_cache'
          IN
          /\ HoldsLatestParse(rule_type, entry_after, parsing'.last)
          /\ entry_after # entry =>
                \/ entry_after = NoRules
                \/ \E p \in 1..MaxParsers :
                      Writes(p, rule_type) /\ entry_after = parsing.calls[p].rules
          /\ api' # api =>
                /\ entry_after = entry
                /\ (api'.op = "get_cached_rules" /\ api'.rule_type = rule_type) =>
                      /\ ~api'.result.raised
                      /\ api'.result.rules = entry
                      /\ HoldsLatestParse(rule_type, api'.result.rules, parsing.last)]_vars

\* a second parse of a kind has replaced a rule set that had more fields, while
\* another call was parsing the same kind, and the entry has been read back
C24_Witness ==
    /\ api.op = "get_cached_rules"
    /\ api.rule_type = "technical"
    /\ api.result.rules = TechnicalFallback(500)
    /\ technical_cache = TechnicalFallback(500)
    /\ \A p \in 1..MaxParsers :
          /\ parsing.calls[p].pc = "returned"
          /\ parsing.calls[p].rule_type = "technical"
    /\ \E p \in 1..MaxParsers : parsing.calls[p].rules = ExtractedTechnicalRules

\* the fallback rule set of parse_technical_rules for a document text
IsTechnicalFallback(rules, text) ==
    /\ rules.paid_amount_threshold =
          (IF text.threshold = NoneAmount THEN 1000 ELSE text.threshold)
    /\ rules.approval_required_services = <<>>
    /\ rules.approval_required_diagnoses = <<>>
    /\ rules.required_fields = <<"national_id", "member_id", "facility_id", "unique_id">>

\* C25: when the LLM extraction gives nothing, the extraction step does not
\* raise and the parse goes on with a fallback rule set (technical: threshold
\* 1000 unless the text gives one, empty approval lists, the default required
\* fields), which the call caches with a TTL of 3600 seconds and returns.
C25_EmptyExtractionFallsBack ==
    [][\A p \in 1..MaxParsers :
          LET call == parsing.calls[p]
              after == parsing'.calls[p]
          IN
          /\ (call.pc = "read" /\ after # call) =>
                /\ after.pc = "extracted"
                /\ (after.fallback /\ after.rule_type = "technical") =>
                      IsTechnicalFallback(after.rules, call.text)
                /\ (after.fallback /\ after.rule_type = "medical") =>
                      after.rules = FallbackMedicalRules
          /\ (call.pc = "extracted" /\ call.fallback /\ after.pc = "returned") =>
                /\ after.rules = call.rules
                /\ after.ttl = 3600
                /\ call.rule_type = "technical" => technical_cache' = call.rules
                /\ call.rule_type = "medical" => medical_cache' = call.rules]_vars

\* a parse whose extraction gave nothing has returned and cached the fallback
\* with the threshold found in the text, and a claim was evaluated against it
C25_Witness ==
    \E p \in 1..MaxParsers :
        /\ parsing.calls[p].pc = "returned"
        /\ parsing.calls[p].fallback
        /\ parsing.calls[p].text.threshold = 500
        /\ parsing.calls[p].ttl = 3600
        /\ technical_cache = TechnicalFallback(500)
        /\ api.op = "evaluate_technical_rules"
        /\ api.technical_rules = technical_cache

\* C26: a parse of a document that cannot be read ends by raising ValueError
\* and leaves both entries as they were; reads and evaluations that follow
\* use the entry cached before.
C26_UnreadableDocumentLeavesStore ==
    [][/\ \A p \in 1..MaxParsers :
            (parsing.calls[p].pc = "idle" /\ parsing'.calls[p].pc = "raised") =>
                /\ parsing'.calls[p].exc = "ValueError"
                /\ technical_cache' = technical_cache
                /\ medical_cache' = medical_cache
                /\ parsing'.last = parsing.last
       /\ (api' # api /\ api'.op = "get_cached_rules") =>
             api'.result.rules = Cached(api'.rule_type)
       /\ (api' # api /\ api'.op = "evaluate_technical_rules") =>
             api'.technical_rules = technical_cache
       /\ (api' # api /\ api'.op = "evaluate_medical_rules") =>
             api'.medical_rules_data = medical_cache]_vars

\* a parse of an unreadable technical document raised while a rule set was
\* cached, and a read after it returned that rule set
C26_Witness ==
    /\ \E p \in 1..MaxParsers :
          /\ parsing.calls[p].pc = "raised"
          /\ parsing.calls[p].at = "PdfReader"
          /\ parsing.calls[p].rule_type = "technical"
          /\ parsing.calls[p].before = ExtractedTechnicalRules
    /\ technical_cache = ExtractedTechnicalRules
    /\ api.op = "get_cached_rules"
    /\ api.rule_type = "technical"
    /\ api.result.rules = ExtractedTechnicalRules

\* C27: an entry that cannot be decoded is treated as absent: the read
\* returns nothing and the evaluations return what they return without a
\* cached rule set, and none of them raises.
C27_MalformedEntryIsAbsence ==
    /\ (api.op = "get_cached_rules" /\ api.entry = MalformedEntry) =>
          api.result = get_cached_rules(NoRules)
    /\ (api.op = "evaluate_technical_rules" /\ api.technical_rules = MalformedEntry) =>
          api.result = evaluate_technical_rules(NoRules, api.claim_data)
    /\ (api.op = "evaluate_medical_rules" /\ api.medical_rules_data = MalformedEntry) =>
          api.result = evaluate_medical_rules(NoRules, <<>>)

\* what evaluate_medical_rules returns when no medical rule set is cached
VacuousMedicalResult ==
    [valid |-> TRUE, errors |-> <<>>, type |-> NoError, llm_analysis |-> ""]

\* C28: while no medical rule set is cached, the medical stage of every claim
\* whose technical stage returned is valid with no errors and type "No error",
\* the LLM is not called, and the claim's error_type and error_explanation
\* are the type and the joined errors of its technical stage.
C28_NoMedicalRulesIsVacuous ==
    [][\A t \in TaskIds :
          LET ses == runs[t].session
              after == runs'[t].session
              n == Len(after.stages)
          IN
          (/\ medical_cache = NoRules
           /\ runs[t].pc = "claims"
           /\ n = Len(ses.stages) + 1
           /\ after.stages[n] # StageRaised) =>
              /\ after.stages[n].medical = VacuousMedicalResult
              /\ after.stages[n].llm = "not called"
              /\ after.claims[n].error_type = after.stages[n].technical_type
              /\ after.claims[n].error_explanation =
                    Join("; ", after.stages[n].technical_errors)]_vars

\* a claim with a technical error was evaluated while no medical rule set
\* was cached
C28_Witness ==
    /\ medical_cache = NoRules
    /\ \E t \in TaskIds : \E i \in 1..Len(StagesOf(t)) :
          /\ StagesOf(t)[i].llm = "not called"
          /\ StagesOf(t)[i].medical = VacuousMedicalResult
          /\ StagesOf(t)[i].technical_type = TechnicalError
          /\ Len(StagesOf(t)[i].technical_errors) >= 1
          /\ runs[t].session.claims[i].error_type = TechnicalError
          /\ runs[t].session.claims[i].status = Validated

\* an update_task_status call on an existing task happens in this step
UpdatesTask(task_id) ==
    /\ api' # api
    /\ api'.op = "update_task_status"
    /\ api'.task_id = task_id
    /\ api'.returned

\* what update_task_status does apart from the details: the status is set,
\* updated_at is stamped, an omitted progress or message is left as it was,
\* omitted details are left as they were, and no other row changes
UpdateFrame(task_id) ==
    LET a == api'.args
    IN
    /\ tasks'[task_id].status = api'.status
    /\ tasks'[task_id].updated_at = now
    /\ a.progress = NoneInt => tasks'[task_id].progress = tasks[task_id].progress
    /\ a.progress # NoneInt => tasks'[task_id].progress = a.progress
    /\ a.message = NoneStr => tasks'[task_id].message = tasks[task_id].message
    /\ a.message # NoneStr => tasks'[task_id].message = a.message
    /\ a.details = NoneDetails => tasks'[task_id].details = tasks[task_id].details
    /\ a.details # NoneDetails =>
          \A k \in DOMAIN a.details \ {"last_update"} :
              /\ k \in DOMAIN tasks'[task_id].details
              /\ tasks'[task_id].details[k] = a.details[k]
    /\ DOMAIN tasks' = DOMAIN tasks
    /\ \A other \in DOMAIN tasks \ {task_id} : tasks'[other] = tasks[other]

\* C29: update_task_status on an existing task sets the status, merges the
\* details patch so that every key absent from the patch keeps its value and
\* every patched key takes the new value, stamps updated_at, leaves an omitted
\* progress or message unchanged, and changes no other task.
C29_UpdateMergesPatch ==
    [][\A task_id \in DOMAIN tasks :
          UpdatesTask(task_id) =>
            /\ UpdateFrame(task_id)
            /\ api'.args.details # NoneDetails =>
                  \A k \in DOMAIN tasks[task_id].details \ DOMAIN api'.args.details :
                      /\ k \in DOMAIN tasks'[task_id].details
                      /\ tasks'[task_id].details[k] = tasks[task_id].details[k]]_vars

\* C29 as the code has it: the same, except that a call with a details patch
\* also stamps the key last_update of the details; every other key absent
\* from the patch keeps its value.
C29_UpdateMergesPatchAndStampsLastUpdate ==
    [][\A task_id \in DOMAIN tasks :
          UpdatesTask(task_id) =>
            /\ UpdateFrame(task_id)
            /\ api'.args.details # NoneDetails =>
                  /\ tasks'[task_id].details.last_update = now
                  /\ \A k \in DOMAIN tasks[task_id].details \
                               (DOMAIN api'.args.details \cup {"last_update"}) :
                        /\ k \in DOMAIN tasks'[task_id].details
                        /\ tasks'[task_id].details[k] = tasks[task_id].details[k]]_vars

\* a task created at time 0 was patched after the clock moved on, next to
\* another task: start_time is kept, the patched key is set
C29_Witness ==
    /\ api.op = "update_task_status"
    /\ api.returned
    /\ api.args.details # NoneDetails
    /\ Cardinality(DOMAIN tasks) >= 2
    /\ "last_update" \in DOMAIN tasks[api.task_id].details
    /\ tasks[api.task_id].details.start_time = 0
    /\ tasks[api.task_id].details.last_update = 1
    /\ tasks[api.task_id].details.processed_count = api.args.details.processed_count

\* C30: what can_start_task answers is determined by the task_status rows
\* alone: it grants exactly when no row of the type is pending or running and
\* its answer is one the rows allow, whatever the in-memory set holds, also
\* after a restart has emptied that set.
C30_AdmissionReadsStoreOnly ==
    [][(api' # api /\ api'.op = "can_start_task") =>
          /\ [can_start |-> api'.can_start, reason |-> api'.reason]
                \in can_start_task(tasks, api'.task_type, api'.user_id)
          /\ api'.can_start = (get_active_tasks(tasks, api'.task_type) = {})
          /\ tasks' = tasks]_vars

\* after a restart the in-memory set is empty while a task of the type is
\* still pending or running, and the request is refused
C30_Witness ==
    /\ api.op = "can_start_task"
    /\ ~api.can_start
    /\ active_tasks = {}
    /\ get_active_tasks(tasks, api.task_type) # {}

\* C31: cleanup_old_tasks deletes exactly the completed or failed tasks that
\* were created before the cutoff, leaves every other task as it was, and
\* returns the number of tasks it deleted.
C31_CleanupDeletesOldTerminalTasks ==
    [][(api' # api /\ api'.op = "cleanup_old_tasks") =>
          LET old == {t \in DOMAIN tasks :
                         /\ tasks[t].status \in {Completed, Failed}
                         /\ tasks[t].created_at < now - api'.days_old}
          IN /\ ~api'.raised
             /\ DOMAIN tasks' = DOMAIN tasks \ old
             /\ \A t \in DOMAIN tasks' : t \in DOMAIN tasks /\ tasks'[t] = tasks[t]
             /\ api'.deleted_count = Cardinality(old)]_vars

\* process_claim_batch has been called for the run of task t and has neither
\* returned nor raised
BatchInProgress(t) == runs[t].pc \in {"load", "claims", "commit"}

\* C32: while the batch of a task is being processed the task is running in
\* the store, which is what a poll returns, and the task becomes completed
\* or failed only in a step of the tracking wrapper taken when the batch is
\* not in progress.
C32_RunningUntilBatchEnds ==
    [][\A t \in TaskIds :
          /\ BatchInProgress(t)' => (t \in DOMAIN tasks' /\ tasks'[t].status = Running)
          /\ (/\ t \in DOMAIN tasks
              /\ tasks[t].status \notin {Completed, Failed}
              /\ tasks'[t].status \in {Completed, Failed}) =>
                /\ runs[t].pc \in {"mark_completed", "mark_failed"}
                /\ ~BatchInProgress(t)]_vars

\* in the middle of a batch, after a claim whose processing raised, the task
\* is running
C32_Witness ==
    \E t \in TaskIds :
        /\ runs[t].pc = "claims"
        /\ runs[t].session.i > 1
        /\ runs[t].session.i <= Len(runs[t].session.claims)
        /\ runs[t].session.skipped # {}
        /\ tasks[t].status = Running

\* the claims of a session that reached processed_count += 1
Counted(ses) == ses.dirty \ ses.skipped

CountedAs(ses, k) == {i \in Counted(ses) : ses.claims[i].error_type = k}

\* the sum of the amounts that are present over the claims at the indices
RECURSIVE SumPaid(_, _)
SumPaid(claims, indices) ==
    IF indices = {} THEN 0
    ELSE LET i == CHOOSE j \in indices : TRUE
             paid == claims[i].paid_amount_aed
         IN (IF paid = NoneAmount THEN 0 ELSE paid) + SumPaid(claims, indices \ {i})

\* C33: for every batch that returns and every error type k,
\* total_paid_by_error[k] is the sum of paid_amount_aed over the processed
\* claims of type k whose amount is present, and error_counts[k] is the
\* number of processed claims of type k, those without an amount included.
C33_PaidTotalsAreSums ==
    [][\A t \in TaskIds :
          (runs[t].batch # "returned" /\ runs'[t].batch = "returned") =>
             \A k \in CounterKeys :
                /\ runs'[t].result.total_paid_by_error[k] =
                      SumPaid(runs[t].session.claims, CountedAs(runs[t].session, k))
                /\ runs'[t].result.error_counts[k] =
                      Cardinality(CountedAs(runs[t].session, k))]_vars

\* a batch returned that counted a claim with an amount and a claim without
\* one under the same error type
C33_Witness ==
    \E t \in TaskIds :
       /\ runs[t].batch = "returned"
       /\ \E k \in CounterKeys :
             /\ runs[t].result.error_counts[k] = 2
             /\ runs[t].result.total_paid_by_error[k] = 1500
             /\ \E c \in DOMAIN master :
                   /\ master[c].paid_amount_aed = NoneAmount
                   /\ master[c].status = Validated
                   /\ master[c].error_type = k

\* C34: under fair scheduling of the background runs every task that was
\* created is eventually completed or failed, and once no task is pending or
\* running a new validation task can be started.
C34_EveryTaskEnds ==
    /\ \A t \in TaskIds :
          (t \in DOMAIN tasks) ~>
              (t \in DOMAIN tasks /\ tasks[t].status \in {Completed, Failed})
    /\ []((\A t \in DOMAIN tasks : tasks[t].status \in {Completed, Failed}) =>
             \A user \in Users :
                can_start_task(tasks, "validation", user) = {TaskCanBeStarted})

\* C35: with a technical rule set cached, evaluate_technical_rules returns an
\* outcome and does not raise, whichever of diagnosis codes, service code,
\* paid amount and approval number of the stored claim are None.
C35_EvaluateTechnicalNeverRaises ==
    (TechnicalCallDone /\ api.technical_rules # NoRules) =>
        /\ ~api.result.raised
        /\ api.result.type \in {NoError, TechnicalError}
        /\ api.result.valid = (api.result.errors = <<>>)

RECURSIVE SumCounts(_, _)
SumCounts(counts, keys) ==
    IF keys = {} THEN 0
    ELSE LET k == CHOOSE j \in keys : TRUE
         IN counts[k] + SumCounts(counts, keys \ {k})

\* C36: for every batch that returns, processed_count equals the sum of
\* error_counts over the error types, the number of claims the batch set to
\* Validated and the number of refined records it wrote.
C36_ProcessedCountMatches ==
    [][\A t \in TaskIds :
          (runs[t].batch # "returned" /\ runs'[t].batch = "returned") =>
             LET ses == runs[t].session
                 result == runs'[t].result
             IN /\ result.processed_count = SumCounts(result.error_counts, CounterKeys)
                /\ result.processed_count =
                      Cardinality({i \in ses.dirty : ses.claims[i].status = Validated})
                /\ result.processed_count = Len(ses.added)]_vars

\* C37: within one run every claim is evaluated against the same technical
\* and the same medical rule set, whatever is parsed or expires during the run.
C37_OneRuleSetPerRun ==
    \A t \in TaskIds : \A i, j \in 1..Len(StagesOf(t)) :
       (StagesOf(t)[i] # StageRaised /\ StagesOf(t)[j] # StageRaised) =>
           StagesOf(t)[i].rules = StagesOf(t)[j].rules

\* the listed ids that have a claim
KnownIds(t) == {c \in DOMAIN master : InSeq(c, runs[t].claim_ids)}

\* the step of line 33
LoadedOnce(t) ==
    (runs[t].pc = "load" /\ runs'[t].pc # "load") =>
        /\ runs'[t].pc = "claims"
        /\ runs'[t].batch = "none"
        /\ runs'[t].session.claims =
              [i \in 1..Cardinality(KnownIds(t)) |-> master[SeqOfClaims(KnownIds(t))[i]]]

\* the step that returns the result
ReturnedForListed(t) ==
    (runs[t].batch = "none" /\ runs'[t].batch = "returned") =>
        /\ runs'[t].result.processed_count <= Cardinality(KnownIds(t))
        /\ \A c \in DOMAIN master \ KnownIds(t) : master'[c] = master[c]
        /\ \A c \in DOMAIN refined' \ DOMAIN refined : c \in KnownIds(t)

\* C38: the claims a batch works on, its result and the records it leaves do
\* not depend on the order of the ids passed nor on repeated ids: the rows
\* loaded are those of the set of listed ids that have a claim, each once and
\* in table order; an id without a claim loads nothing, raises nothing and is
\* not counted; a claim that was not listed is left as it was.
C38_IndependentOfOrderAndRepeats ==
    [][\A t \in TaskIds : LoadedOnce(t) /\ ReturnedForListed(t)]_vars

\* a call with the ids in reverse order, one repeated and one unknown has
\* returned, with the one claim that evaluates counted once
C38_Witness ==
    /\ runs[DirectRun].claim_ids = <<"C2", "C9", "C1", "C2">>
    /\ runs[DirectRun].batch = "returned"
    /\ runs[DirectRun].result.processed_count = 1
    /\ "C1" \in DOMAIN refined

\* the in-memory set holds ids of stored tasks that have not ended
ActiveTasksAreStoredActive ==
    \A task_id \in active_tasks :
       task_id \in DOMAIN tasks /\ tasks[task_id].status \in {Pending, Running}

\* a call of update_task_status
UpdateReturns ==
    (api' # api /\ api'.op = "update_task_status") =>
        /\ api'.returned = (api'.task_id \in DOMAIN tasks)
        /\ api'.returned /\ api'.status \in {Completed, Failed} =>
               api'.task_id \notin active_tasks'
        /\ ~api'.returned => tasks' = tasks /\ active_tasks' = active_tasks

\* C39: after any sequence of create_task and update_task_status calls in one
\* process, every id in the in-memory set has a stored task that is pending or
\* running; an update to completed or failed removes the id from the set; an
\* update for an unknown id returns False and changes neither the store nor
\* the set.
C39_ActiveSetWithinStore == []ActiveTasksAreStoredActive /\ [][UpdateReturns]_vars

\* two tasks were created and one of them was updated to completed: it has
\* left the set and the other is still tracked
C39_Witness ==
    /\ api.op = "update_task_status"
    /\ api.returned
    /\ api.status = Completed
    /\ api.task_id \notin active_tasks
    /\ active_tasks # {}

====
